---- MODULE Spec2Model ----
(***************************************************************************)
(* awsesh ("sesh"): the TUI session controller of src/main.go together     *)
(* with the token store and account cache of src/config/config.go and the *)
(* SSO client of src/aws/client.go.                                        *)
(*                                                                         *)
(* The Bubble Tea runtime is modelled as it works: Update handles one      *)
(* message at a time on the value m; every tea.Cmd runs in its own         *)
(* goroutine and its result comes back as a message; every `go func()`    *)
(* is a goroutine that runs at any later instant.  A command in the bag    *)
(* cmds is in flight; the action that completes it runs the command's     *)
(* body (the remote call, with its outcome chosen by the environment, and  *)
(* the file writes the body makes) and then Update's handler for the       *)
(* message the body returns.                                               *)
(*                                                                         *)
(* Slices are Go slices: m.accounts, the accounts of a loadNextRoleMsg and *)
(* the argument of a background SaveCachedAccounts share one backing      *)
(* array, so arrays live in heap and are named by their index.  The       *)
(* in-place sort of SaveCachedAccounts races with Update; it is modelled  *)
(* as one atomic step of the goroutine taken at any instant.               *)
(*                                                                         *)
(* The user presses at most MaxKeys keys in a run (enter on a profile, on  *)
(* an account, on a role, and esc), and the environment decides how every *)
(* remote call ends.                                                       *)
(*                                                                         *)
(* The module holds several specifications over the same variables:       *)
(*   Spec            the TUI from the profile list to the session, with    *)
(*                   the login, the polling clock and the role sweep       *)
(*   PrefSpec        the same journey with a cached token, together with   *)
(*                   the goroutines that save the preferences              *)
(*   RegionSpec      runs of the TUI, with restarts, in which the region   *)
(*                   of an account is set and cleared                      *)
(*   ProfilesSpec    adding, editing and deleting profiles                 *)
(*   CredentialsSpec writes of the credentials file over any prior file    *)
(*   DirectSpec      main with positional arguments: directSessionSetup    *)
(*                   from the arguments to the exit code                   *)
(*   CatalogSpec     a run over the account cache of an earlier run, in    *)
(*                   which the fresh account list replaces the cached one  *)
(*   FairCatalogSpec the same run with every command and save completing   *)
(*   LoadSpec        the start-up load of the profiles from the AWS config *)
(*                   file and the profile store                            *)
(*   TokenSpec       logins, quits and restarts over the token store       *)
(*   FreshSpec       a first run that creates every file                   *)
(*   LongRunSpec     a run that stays open while the clock advances past   *)
(*                   the expiry of the token                               *)
(*   DeleteSpec      profile work over an account cache and an AWS config  *)
(*                   file of earlier runs                                  *)
(*   SessionSpec     role confirmations, escapes and quits around the      *)
(*                   get_role_credentials calls in flight                  *)
(*   RememberedSpec  a run after an earlier one saved the last account     *)
(*                                                                         *)
(* Account names are abstracted to their rank under strings.Compare        *)
(* (name 1 sorts before name 2); account n has the ID IDBase + n, and the  *)
(* account -n is a second account that bears the name of account n.  Time  *)
(* is counted in ticks of 1/TicksPerSecond seconds.  The fields of m that  *)
(* only feed the view (spinner, verification URI, list filter, sizes) are *)
(* outside this model.                                                     *)
(***************************************************************************)
EXTENDS Integers, Sequences, FiniteSets, Bags, TLC

\* ------------------------------------------------------------------ bounds
MaxTime == 5            \* the clock runs from 0 to MaxTime ticks
MaxKeys == 3            \* key presses per run
MaxSessionKeys == 6     \* key presses over the runs of a session with restarts
SmallLen == 2           \* accounts of the small organisation
MaxCursor == 2          \* the user opens one of the first MaxCursor items
MaxInFlight == 2        \* the user starts no new work while this much is in flight
TicksPerSecond == 2     \* clock resolution

\* ------------------------------------------------------- program constants
stateSelectSSO == 0
stateSelectAccount == 1
stateSelectRole == 2
stateSessionSuccess == 3
stateAddSSO == 4
stateEditSSO == 5
stateDeleteConfirm == 6
stateSetAccountRegion == 7
maxAccountsForRoleLoading == 100
PollSleepSeconds == 2
TokenLifetimeHours == 8

PollSleep == PollSleepSeconds * TicksPerSecond
TokenLifetime == TokenLifetimeHours * 3600 * TicksPerSecond

\* --------------------------------------------------------- the environment
Profiles == {"P1", "P2"}
NoProfile == ""
StartURLOf(p) == IF p = "P1" THEN "https://one.awsapps.com/start"
                 ELSE "https://two.awsapps.com/start"
URLs == {StartURLOf(p) : p \in Profiles}
DefaultRegionOf(p) == IF p = "P1" THEN "eu-north-1" ELSE "us-east-1"

\* config.SSOProfile
Profile(p) == [Name |-> p, StartURL |-> StartURLOf(p), SSORegion |-> "eu-west-1",
               DefaultRegion |-> DefaultRegionOf(p)]

IDBase == 1000

\* The name of account n.  Account names need not be unique in an
\* organisation: account -n is a second account with the name of account n.
AccountNameOf(n) == IF n < 0 THEN -n ELSE n

NewAccount(n) == [Name |-> AccountNameOf(n), AccountID |-> IDBase + n, Roles |-> <<>>,
                  SelectedRole |-> "", Region |-> "", RolesLoaded |-> FALSE]

\* What the remote list_accounts returns, as (name) ranks in the order of the
\* pages.  The small organisation is returned unsorted (the API promises no
\* order); the large one has one account more than the role-loading limit.
SmallList == [i \in 1..SmallLen |-> IF i = 1 THEN 2 ELSE IF i = 2 THEN 1 ELSE i]
BigListLen == maxAccountsForRoleLoading + 1
BigList == [i \in 1..BigListLen |-> SmallLen + i]
RemoteAccountsOf(p) == IF p = "P1" THEN {SmallList} ELSE {BigList}

ErrorLoadingRoles == "Error loading roles"
RoleOrder == <<"Admin", "Dev", ErrorLoadingRoles>>
RemoteRoles == {<<"Dev", "Admin">>}

CachedToken(startURL) ==
    IF startURL = StartURLOf("P1") THEN "token-one-cached" ELSE "token-two-cached"
NewToken(startURL) ==
    IF startURL = StartURLOf("P1") THEN "token-one-new" ELSE "token-two-new"
DeviceExpiresInSeconds == 2

\* The polling interval start_device_authorization returns, in seconds.
IntervalSecondsOf(startURL) == IF startURL = StartURLOf("P1") THEN 1 ELSE 5


\* ---------------------------------------------------------------- helpers
IndexOf(seq, x, from) ==
    LET hits == {i \in from..Len(seq) : seq[i] = x}
    IN IF hits = {} THEN 0 ELSE CHOOSE i \in hits : \A j \in hits : i <= j

Names(accs) == [i \in 1..Len(accs) |-> accs[i].Name]
IDs(accs) == [i \in 1..Len(accs) |-> accs[i].AccountID]

RoleRank(r) == IndexOf(RoleOrder, r, 1)

SortByKey(seq, key) ==
    IF \A i \in 1..(Len(seq) - 1) : key[i] <= key[i + 1] THEN seq
    ELSE
    LET Before(i) == {j \in 1..Len(seq) : key[j] < key[i] \/ (key[j] = key[i] /\ j < i)}
        At(k) == CHOOSE i \in 1..Len(seq) : Cardinality(Before(i)) = k - 1
    IN [k \in 1..Len(seq) |-> seq[At(k)]]

\* Items left in the order they were made in.
Unsorted(titles) == titles

\* sortItems: slices.SortFunc by strings.Compare of the titles.
sortItems(titles) == SortByKey(titles, titles)

\* makeAccountItems: one item per account, titled by the account name, sorted.
makeAccountItems(accs) == sortItems(Names(accs))

\* makeRoleItems: one item per role, titled by the role name, sorted.
makeRoleItems(roles) ==
    SortByKey(roles, [i \in 1..Len(roles) |-> RoleRank(roles[i])])

\* slices.SortFunc(accounts, strings.Compare of the names) of SaveCachedAccounts.
SortAccounts(accs) == SortByKey(accs, Names(accs))

\* ------------------------------------------------------------ token store
\* One section per start URL with the keys access_token and expires_at.
NoSection == [present |-> FALSE, access_token |-> "", expires_at |-> 0]

\* A format that rounds up to the next whole second.
FormatNextSecond(t) == t \div TicksPerSecond + 1

\* time.Time.Format(time.RFC3339): whole seconds, the fraction is dropped.
FormatRFC3339(t) == t \div TicksPerSecond

\* time.Parse(time.RFC3339, s): the instant of that whole second.
ParseRFC3339(s) == s * TicksPerSecond

\* A save that writes nothing.
SaveNothing(store, startURL, token, expiresAt) == store

\* Manager.SaveToken: upserts the section of startURL.
SaveToken(store, startURL, token, expiresAt) ==
    [store EXCEPT ![startURL] =
        [present |-> TRUE, access_token |-> token,
         expires_at |-> FormatRFC3339(expiresAt)]]

NoToken == [found |-> FALSE, AccessToken |-> "", ExpiresAt |-> 0]

\* A store that takes every token for expired.
AlwaysExpired(t, expiresAt) == TRUE

\* time.Now().After(expiresAt) at the instant t.
TokenExpired(t, expiresAt) == t > expiresAt

\* Manager.LoadToken at the instant t.
LoadToken(store, startURL, t) ==
    LET section == store[startURL] IN
    IF ~section.present THEN NoToken
    ELSE IF section.access_token = "" THEN NoToken
    ELSE IF TokenExpired(t, ParseRFC3339(section.expires_at)) THEN NoToken
    ELSE [found |-> TRUE, AccessToken |-> section.access_token,
          ExpiresAt |-> ParseRFC3339(section.expires_at)]

\* ---------------------------------------------------------- account cache
\* The file is the JSON list of CachedAccounts, one record per start URL, or
\* bytes that json.Unmarshal does not parse.  A missing file is the list
\* without records.
NoCache == [present |-> FALSE, ProfileName |-> "", Accounts |-> <<>>]
NoCacheFile == [wellFormed |-> TRUE, caches |-> [u \in URLs |-> NoCache]]
CorruptCacheFile == [NoCacheFile EXCEPT !.wellFormed = FALSE]

\* Manager.LoadCachedAccounts: the accounts of the record of startURL, none
\* when there is no record; an error when the file does not parse.
LoadCachedAccounts(cache, startURL) ==
    IF ~cache.wellFormed
    THEN [err |-> "failed to parse accounts cache", Accounts |-> <<>>]
    ELSE [err |-> "",
          Accounts |-> IF cache.caches[startURL].present
                       THEN cache.caches[startURL].Accounts ELSE <<>>]

\* Manager.SaveCachedAccounts after its sort: over the records of the file
\* (none when the file does not parse), replaces the accounts of the record
\* of startURL, or appends a record that also keeps the profile name.
UpsertCachedAccounts(cache, profileName, startURL, sorted) ==
    LET allCaches == IF cache.wellFormed THEN cache.caches ELSE NoCacheFile.caches
    IN [wellFormed |-> TRUE,
        caches |-> [allCaches EXCEPT ![startURL] =
                       IF allCaches[startURL].present
                       THEN [allCaches[startURL] EXCEPT !.Accounts = sorted]
                       ELSE [present |-> TRUE, ProfileName |-> profileName,
                             Accounts |-> sorted]]]

\* -------------------------------------------------------------- ini files
\* The profile store and the credentials file are ini files, read and
\* written with gopkg.in/ini.v1: a file is a map from section names to maps
\* from keys to values.  A key is its name with the account (0 for none) and
\* the role ("" for none) it is about: last_role_<account> is the key
\* <<"last_role", account, "">>.  A missing key reads as "".  A file that is
\* not well formed has its sections on disk but does not load.
NoFile == [exists |-> FALSE, wellFormed |-> TRUE, sections |-> <<>>]
IniFile(sections) == [exists |-> TRUE, wellFormed |-> TRUE, sections |-> sections]

Key(name) == <<name, 0, "">>
AccountKey(name, accountName) == <<name, accountName, "">>
AccountRoleKey(name, accountName, roleName) == <<name, accountName, roleName>>

\* ini.Load(path)
IniLoad(file) ==
    IF ~file.exists THEN [err |-> "not exist", cfg |-> <<>>]
    ELSE IF ~file.wellFormed THEN [err |-> "parse", cfg |-> <<>>]
    ELSE [err |-> "", cfg |-> file.sections]

\* cfg.GetSection(name) succeeds
HasSection(cfg, name) == name \in DOMAIN cfg

\* cfg.NewSection(name): the section of that name, created empty when missing
NewSection(cfg, name) == IF HasSection(cfg, name) THEN cfg ELSE (name :> <<>>) @@ cfg

\* section.Key(key).SetValue(value) in the section of that name
SetValue(cfg, name, key, value) == [cfg EXCEPT ![name] = (key :> value) @@ @]

\* section.Key(key).String() in the section of that name
KeyString(cfg, name, key) ==
    IF HasSection(cfg, name) /\ key \in DOMAIN cfg[name] THEN cfg[name][key] ELSE ""

\* cfg.SaveTo(path)
SaveTo(cfg) == IniFile(cfg)

\* Manager.SaveProfiles(profiles): an empty configuration with one section
\* per profile, holding its three keys.
SaveProfiles(profiles) ==
    LET names == {profiles[i].Name : i \in 1..Len(profiles)}
        Last(n) == CHOOSE i \in 1..Len(profiles) :
                       /\ profiles[i].Name = n
                       /\ \A j \in 1..Len(profiles) : profiles[j].Name = n => j <= i
    IN SaveTo([n \in names |->
                  (Key("start_url") :> profiles[Last(n)].StartURL)
                  @@ (Key("sso_region") :> profiles[Last(n)].SSORegion)
                  @@ (Key("default_region") :> profiles[Last(n)].DefaultRegion)])

\* The load of the Save... functions of the profile store: a missing file is
\* an empty configuration.
LoadOrEmpty(file) ==
    LET loaded == IniLoad(file)
    IN [err |-> IF loaded.err = "not exist" THEN "" ELSE loaded.err, cfg |-> loaded.cfg]

\* The section of name, got or created, with the key set.
WithKey(cfg, name, key, value) == SetValue(NewSection(cfg, name), name, key, value)

\* The Get... functions of the profile store: "" for a missing file, a file
\* that does not load, a missing section or a missing key.
GetKey(file, name, key) == KeyString(IniLoad(file).cfg, name, key)

\* The file loads and holds the value under the key of the section.
StoreHolds(file, name, key, value) ==
    LET cfg == IniLoad(file).cfg
    IN /\ HasSection(cfg, name)
       /\ key \in DOMAIN cfg[name]
       /\ cfg[name][key] = value

\* Manager.GetLastSelectedRole(profileName, accountName)
GetLastSelectedRole(file, profileName, accountName) ==
    GetKey(file, profileName, AccountKey("last_role", accountName))

\* Manager.GetAccountRegion(profileName, accountName)
GetAccountRegion(file, profileName, accountName) ==
    GetKey(file, profileName, AccountKey("region", accountName))

\* Manager.GetLastSelectedAccount(profileName)
GetLastSelectedAccount(file, profileName) == GetKey(file, profileName, Key("last_account"))

\* Manager.GetLastSelectedSSOProfile()
GetLastSelectedSSOProfile(file) == GetKey(file, "metadata", Key("last_sso_profile"))

\* Manager.GetProfileNameForAccountRole(ssoProfileName, accountName, roleName)
GetProfileNameForAccountRole(file, ssoProfileName, accountName, roleName) ==
    GetKey(file, ssoProfileName, AccountRoleKey("profile_name", accountName, roleName))

\* The Save... functions of the profile store: load the whole file (a file
\* that does not load is left alone), set the one key, save the whole file.
SaveKey(file, name, key, value) ==
    LET loaded == LoadOrEmpty(file)
    IN IF loaded.err # "" THEN file ELSE SaveTo(WithKey(loaded.cfg, name, key, value))

\* Manager.SaveAccountRegion(profileName, accountName, region)
SaveAccountRegion(file, profileName, accountName, region) ==
    SaveKey(file, profileName, AccountKey("region", accountName), region)

\* Manager.SaveLastSelectedAccount(profileName, accountName)
SaveLastSelectedAccount(file, profileName, accountName) ==
    SaveKey(file, profileName, Key("last_account"), accountName)

\* Manager.SaveLastSelectedRole(profileName, accountName, roleName)
SaveLastSelectedRole(file, profileName, accountName, roleName) ==
    SaveKey(file, profileName, AccountKey("last_role", accountName), roleName)

\* Manager.SaveLastSelectedSSOProfile(profileName)
SaveLastSelectedSSOProfile(file, profileName) ==
    SaveKey(file, "metadata", Key("last_sso_profile"), profileName)

\* Manager.SaveProfileNameForAccountRole(ssoProfileName, accountName,
\* roleName, customProfileName)
SaveProfileNameForAccountRole(file, ssoProfileName, accountName, roleName, customProfileName) ==
    SaveKey(file, ssoProfileName,
            AccountRoleKey("profile_name", accountName, roleName), customProfileName)

\* The AWS config file: the sections in the order of the file, each with its
\* name split into the prefix "profile " (or none) and the rest, and the keys
\* LoadSSOProfilesFromAWSConfig reads.
NoAwsConfig == [exists |-> FALSE, wellFormed |-> TRUE, sections |-> <<>>]
AwsConfig(sections) == [exists |-> TRUE, wellFormed |-> TRUE, sections |-> sections]
AwsSection(prefix, name, startURL, ssoRegion, region) ==
    [sectionName |-> <<prefix, name>>, sso_start_url |-> startURL,
     sso_region |-> ssoRegion, region |-> region]

\* strings.HasPrefix(sectionName, "profile ") and strings.TrimPrefix
HasProfilePrefix(sectionName) == sectionName[1] = "profile "
TrimProfilePrefix(sectionName) == sectionName[2]

\* LoadSSOProfilesFromAWSConfig(): one profile per section with an
\* sso_start_url, in the order of the file; region stands in for a missing
\* default region.  A missing file is no profiles and no error.
LoadSSOProfilesFromAWSConfig(file) ==
    LET kept == SelectSeq(file.sections, LAMBDA section : section.sso_start_url # "")
    IN IF ~file.exists THEN [err |-> "", profiles |-> <<>>]
       ELSE IF ~file.wellFormed
       THEN [err |-> "failed to load AWS config file", profiles |-> <<>>]
       ELSE [err |-> "",
             profiles |->
                 [i \in 1..Len(kept) |->
                     [Name |-> IF HasProfilePrefix(kept[i].sectionName)
                               THEN TrimProfilePrefix(kept[i].sectionName)
                               ELSE kept[i].sectionName[2],
                      StartURL |-> kept[i].sso_start_url,
                      SSORegion |-> kept[i].sso_region,
                      DefaultRegion |-> IF kept[i].region = "" THEN kept[i].sso_region
                                        ELSE kept[i].region]]]

\* One profile per section of the awsesh profile store.  The old key region
\* stands in for a missing sso_region, and then for a missing default_region
\* too.
SectionProfile(cfg, name) ==
    LET ssoRegion == KeyString(cfg, name, Key("sso_region"))
        defaultRegion == KeyString(cfg, name, Key("default_region"))
        oldRegion == KeyString(cfg, name, Key("region"))
    IN [Name |-> name,
        StartURL |-> KeyString(cfg, name, Key("start_url")),
        SSORegion |-> IF ssoRegion = "" THEN oldRegion ELSE ssoRegion,
        DefaultRegion |-> IF ssoRegion = "" /\ oldRegion # "" /\ defaultRegion = ""
                          THEN oldRegion ELSE defaultRegion]

\* A merge in which the profiles of the AWS config file take precedence.
AwsConfigWins(awsProfiles, storeProfiles) == awsProfiles @@ storeProfiles

\* profileMap after both loops of LoadProfiles: the entries of the awsesh
\* profile store are assigned last.
MergeProfiles(awsProfiles, storeProfiles) == storeProfiles @@ awsProfiles

\* Manager.LoadProfiles(): the profiles of the AWS config file (none when it
\* does not load) by name, the later section of a name taking the entry, then
\* the sections of the profile store other than metadata that have a
\* start_url.  The result is the set of the entries of profileMap.
LoadProfiles(awsFile, file) ==
    LET aws == LoadSSOProfilesFromAWSConfig(awsFile)
        awsNames == {aws.profiles[i].Name : i \in 1..Len(aws.profiles)}
        LastOf(n) == CHOOSE i \in 1..Len(aws.profiles) :
                         /\ aws.profiles[i].Name = n
                         /\ \A j \in 1..Len(aws.profiles) :
                               aws.profiles[j].Name = n => j <= i
        awsProfiles == [n \in awsNames |-> aws.profiles[LastOf(n)]]
        loaded == IniLoad(file)
        cfg == loaded.cfg
        storeNames == {n \in DOMAIN cfg \ {"metadata"} :
                          KeyString(cfg, n, Key("start_url")) # ""}
        storeProfiles == [n \in storeNames |-> SectionProfile(cfg, n)]
        profileMap == MergeProfiles(awsProfiles, storeProfiles)
    IN IF loaded.err \notin {"", "not exist"} THEN {}
       ELSE {profileMap[n] : n \in DOMAIN profileMap}

\* The orders in which the map of LoadProfiles is turned into a slice.
Orderings(S) ==
    {order \in [1..Cardinality(S) -> S] :
        \A i, j \in 1..Cardinality(S) : i # j => order[i] # order[j]}

\* The credentials the remote get_role_credentials issues for a role.
RoleCredentials(accountID, roleName) == <<accountID, roleName>>

\* config.WriteCredentialsWithProfile(accessKeyID, secretAccessKey,
\* sessionToken, region, profileName) on the credentials file
WriteCredentialsWithProfile(file, roleCredentials, region, profileName) ==
    LET loaded == IniLoad(file)
        cfg == IF loaded.err # "" THEN <<>> ELSE loaded.cfg
        named == NewSection(cfg, profileName)
        keyed == SetValue(SetValue(SetValue(named,
                     profileName, Key("aws_access_key_id"), roleCredentials),
                     profileName, Key("aws_secret_access_key"), roleCredentials),
                     profileName, Key("aws_session_token"), roleCredentials)
    IN SaveTo(SetValue(keyed, profileName, Key("region"), region))

\* config.WriteCredentials: the profile "default"
WriteCredentials(file, roleCredentials, region) ==
    WriteCredentialsWithProfile(file, roleCredentials, region, "default")

\* ------------------------------------------------------------ file modes
\* The permission a file or directory is created with, as the set of its
\* permission bits, before the umask of the process is taken off.
Perm0600 == {"owner read", "owner write"}
Perm0700 == {"owner read", "owner write", "owner search"}
Perm0666 == {"owner read", "owner write", "group read", "group write",
             "other read", "other write"}

\* os.WriteFile(cachePath, jsonData, 0600) of SaveCachedAccounts
cacheFilePerm == Perm0600

\* os.MkdirAll(awsDir, 0700) of the path helpers
awsDirPerm == Perm0700

\* cfg.SaveTo(path) of SaveProfiles, SaveToken, WriteCredentialsWithProfile
\* and the preference setters: no mode is passed and none is set afterwards,
\* so the file is created with the mode ini.v1 writes with, 0666.
saveToPerm == Perm0666

\* The permission the persistence store creates the file of that kind with.
CreatedPerm(kind) == IF kind = "accounts" THEN cacheFilePerm ELSE saveToPerm

\* ------------------------------------------------------------- SSO client
\* A list without the lookup of existing accounts: every account is new.
NeverExisting(existing, accountID) == 0

\* existingMap of Client.ListAccounts: the record kept for an account ID is
\* the last existing one with that ID (0 when there is none).
ExistingAt(existing, accountID) ==
    LET hits == {i \in 1..Len(existing) : existing[i].AccountID = accountID}
    IN IF hits = {} THEN 0 ELSE CHOOSE i \in hits : \A j \in hits : i >= j

\* Client.ListAccounts: in the order of the remote pages, an account whose ID
\* is among the existing ones is the existing record, any other is new.
ListAccounts(existing, remote) ==
    [i \in 1..Len(remote) |->
        LET at == ExistingAt(existing, IDBase + remote[i])
        IN IF at > 0 THEN existing[at] ELSE NewAccount(remote[i])]

\* ------------------------------------------------------------------ state
VARIABLES
    m,              \* the model value Update works on (struct model)
    heap,           \* backing arrays of []aws.Account slices, by array index
    tokenStore,     \* the file awsesh-tokens
    accountCache,   \* the file awsesh-accounts
    awsConfig,      \* the AWS config file
    credentials,    \* the AWS credentials file
    profileStore,   \* the file awsesh: the profiles and the preferences
    cmds,           \* bag of the commands and goroutines in flight
    savers,         \* bag of the goroutines that save a preference
    now,            \* wall clock, in ticks
    nano,           \* the clock of time.Now().UnixNano(), one step per key press
    direct,         \* the run of directSessionSetup (pc "off": the TUI runs instead)
    budget,         \* the number of keys the user presses in this run
    last            \* the step just taken: its action, command and remote calls

vars == <<m, heap, tokenStore, accountCache, awsConfig, credentials, profileStore, cmds,
         savers, now, nano, direct, budget, last>>

\* fmt.Sprintf("%s-%d", profile.Name, time.Now().UnixNano()); "" is no request.
NoRequestID == <<"", 0>>
RequestID(name, stamp) == <<name, stamp>>

NoAcc == [arr |-> 0, idx |-> 0]

\* The slice behind an array index; index 0 is the nil slice.
Arr(hp, a) == IF a = 0 THEN <<>> ELSE hp[a]

\* A command in flight.  Every kind carries the same fields; a kind leaves
\* the fields it does not have at these defaults.  born, auto and profile
\* are bookkeeping: the request ID current when the work was started,
\* whether a role load was issued by the sweep, and the profile addressed.
NoCmd == [kind |-> "none", requestID |-> NoRequestID, startUrl |-> "",
          accessToken |-> "", accountID |-> 0, currentIdx |-> 0, arr |-> 0,
          existing |-> 0, expiresAt |-> 0, interval |-> 0, wakeAt |-> 0,
          roleName |-> "", ssoDefaultRegion |-> "",
          selectedAcc |-> NoAcc, profile |-> "", born |-> NoRequestID,
          auto |-> FALSE]

\* startSSOLogin(startUrl, configMgr, client, requestID)
startSSOLoginCmd(startUrl, requestID, profile) ==
    [NoCmd EXCEPT !.kind = "startSSOLogin", !.startUrl = startUrl,
                  !.requestID = requestID, !.born = requestID, !.profile = profile]

\* pollForSSOToken(info, client, configMgr): info carries the expiry, the
\* interval, the start URL and the request ID of the login.
pollForSSOTokenCmd(info) == [info EXCEPT !.kind = "pollForSSOToken", !.wakeAt = 0]

\* The same command asleep in time.Sleep before it returns its tick message.
pollSleepCmd(info, wakeAt) == [info EXCEPT !.kind = "pollSleep", !.wakeAt = wakeAt]

\* fetchAccounts(client, accessToken, requestID, existingAccounts)
fetchAccountsCmd(accessToken, requestID, existing, profile) ==
    [NoCmd EXCEPT !.kind = "fetchAccounts", !.accessToken = accessToken,
                  !.requestID = requestID, !.existing = existing,
                  !.born = requestID, !.profile = profile]

\* loadNextRoleMsg{accounts, currentIdx, accessToken}
loadNextRoleCmd(arr, currentIdx, accessToken, profile, born) ==
    [NoCmd EXCEPT !.kind = "loadNextRole", !.arr = arr, !.currentIdx = currentIdx,
                  !.accessToken = accessToken, !.profile = profile,
                  !.born = born, !.auto = TRUE]

\* loadAccountRoles(client, accessToken, accountID, currentIdx)
loadAccountRolesCmd(accessToken, accountID, currentIdx, arr, profile, born, auto) ==
    [NoCmd EXCEPT !.kind = "loadAccountRoles", !.accessToken = accessToken,
                  !.accountID = accountID, !.currentIdx = currentIdx,
                  !.arr = arr, !.profile = profile, !.born = born, !.auto = auto]

\* getRoleCredentials(client, accessToken, accountID, roleName, selectedAcc,
\*                    ssoDefaultRegion, requestID)
getRoleCredentialsCmd(accessToken, accountID, roleName, selectedAcc, ssoDefaultRegion, requestID, profile) ==
    [NoCmd EXCEPT !.kind = "getRoleCredentials", !.accessToken = accessToken,
                  !.accountID = accountID, !.roleName = roleName,
                  !.selectedAcc = selectedAcc, !.ssoDefaultRegion = ssoDefaultRegion,
                  !.requestID = requestID, !.born = requestID, !.profile = profile]

\* go func() { configMgr.SaveCachedAccounts(name, startURL, accounts) }()
saveCachedAccountsCmd(profile, startUrl, arr, born) ==
    [NoCmd EXCEPT !.kind = "saveCachedAccounts", !.profile = profile,
                  !.startUrl = startUrl, !.arr = arr, !.born = born]

\* A goroutine that saves a preference: the profile and the account it was
\* started with (the account through the pointer m.selectedAcc), and the
\* configuration it has loaded once it stands before its write.
NoSaver == [kind |-> "", profile |-> "", acc |-> NoAcc, pc |-> "start", cfg |-> <<>>]

\* go func(name) { configMgr.SaveLastSelectedSSOProfile(name) }(profile.Name)
saveLastSelectedSSOProfile(name) ==
    [NoSaver EXCEPT !.kind = "SaveLastSelectedSSOProfile", !.profile = name]

\* go func() { configMgr.SaveLastSelectedAccount(m.selectedSSO.Name,
\*                                               m.selectedAcc.Name) }()
saveLastSelectedAccount(name, acc) ==
    [NoSaver EXCEPT !.kind = "SaveLastSelectedAccount", !.profile = name, !.acc = acc]

\* go func() { configMgr.SaveLastSelectedRole(m.selectedSSO.Name,
\*     m.selectedAcc.Name, m.selectedAcc.SelectedRole) }()
saveLastSelectedRole(name, acc) ==
    [NoSaver EXCEPT !.kind = "SaveLastSelectedRole", !.profile = name, !.acc = acc]

One(c) == SetToBag({c})
Step(act, outcome, c, calls) ==
    [act |-> act, outcome |-> outcome, cmd |-> c, calls |-> calls, listed |-> <<>>]

\* What a handler of Update returns: the new model value, the heap after its
\* writes through slices and pointers, and the commands it starts.
Result(mm, hp, spawn) == [m |-> mm, heap |-> hp, spawn |-> spawn]

\* directSessionSetup: where it stands, for which profile, the token it holds
\* and the error it returned.
DirectOff == [pc |-> "off", profile |-> NoProfile, accessToken |-> "", err |-> "",
              expiresAt |-> 0, args |-> <<>>, regionFlag |-> "",
              account |-> NewAccount(0), roles |-> <<>>, roleName |-> "",
              exitCode |-> -1]
DirectStart(p) == [DirectOff EXCEPT !.pc = "start", !.profile = p]

\* initialModel with at least one profile in the store.
InitialModel ==
    [state |-> stateSelectSSO, selectedSSO |-> NoProfile, accounts |-> 0,
     selectedAcc |-> NoAcc, accountItems |-> <<>>, roleItems |-> <<>>,
     accessToken |-> "", errorMessage |-> "", loadingText |-> "",
     usingCachedAccounts |-> FALSE, currentRequestID |-> NoRequestID,
     isAuthenticating |-> FALSE, accountCursor |-> 1,
     ssoProfiles |-> <<Profile("P1"), Profile("P2")>>, editingIndex |-> -1,
     deleteProfileName |-> "", formError |-> ""]

\* initialModel(): the profiles of the profile store, in the add form when
\* there are none.
initialModel(profiles) ==
    [InitialModel EXCEPT !.ssoProfiles = profiles,
                         !.state = IF Len(profiles) > 0 THEN stateSelectSSO
                                   ELSE stateAddSSO]

\* A token left by an earlier run: valid at the start, expired CachedExpirySeconds later.
CachedExpirySeconds == 1
CachedSection(startURL) ==
    [present |-> TRUE, access_token |-> CachedToken(startURL),
     expires_at |-> CachedExpirySeconds]

Init ==
    /\ m = InitialModel
    /\ heap = <<>>
    /\ \E has \in SUBSET {StartURLOf("P1")} :
         tokenStore = [u \in URLs |-> IF u \in has THEN CachedSection(u) ELSE NoSection]
    /\ accountCache = NoCacheFile
    /\ awsConfig = NoAwsConfig
    /\ credentials = NoFile
    /\ profileStore = SaveProfiles(<<Profile("P1"), Profile("P2")>>)
    /\ cmds = EmptyBag
    /\ savers = EmptyBag
    /\ now = 0
    /\ nano = 0
    /\ direct \in {DirectOff} \cup {DirectStart(p) : p \in Profiles}
    /\ budget = MaxKeys
    /\ last = Step("Init", "", NoCmd, {})


\* ------------------------------------------------------- Update: messages
\* A controller that takes every result for current.
NeverOutdated(requestID, mm) == FALSE

\* `if msg.requestID != m.currentRequestID { return m, nil }`
IsOutdated(requestID, mm) == requestID # mm.currentRequestID

\* case ssoLoginSuccessMsg; fetchAccounts gets the accounts as they are now
ssoLoginSuccessMsg(accessToken, requestID) ==
    IF IsOutdated(requestID, m) THEN Result(m, heap, EmptyBag)
    ELSE Result([m EXCEPT !.accessToken = accessToken,
                          !.loadingText = "SSO login successful! Fetching accounts...",
                          !.errorMessage = "",
                          !.isAuthenticating = FALSE],
                heap,
                One(fetchAccountsCmd(accessToken, m.currentRequestID, m.accounts,
                                     m.selectedSSO)))

\* A controller that stays on the account list after an error.
StateKept == stateSelectAccount

\* The state Update moves to on ssoLoginErrMsg and fetchAccountsErrMsg.
StateAfterError == stateSelectSSO

\* case ssoLoginErrMsg
ssoLoginErrMsg(err, requestID) ==
    IF IsOutdated(requestID, m) THEN Result(m, heap, EmptyBag)
    ELSE Result([m EXCEPT !.errorMessage = err, !.state = StateAfterError],
                heap, EmptyBag)

\* case *aws.SSOLoginInfo
SSOLoginInfoMsg(info) ==
    IF IsOutdated(info.requestID, m) THEN Result(m, heap, EmptyBag)
    ELSE Result([m EXCEPT !.loadingText = "Waiting for browser authentication..."],
                heap, One(pollForSSOTokenCmd(info)))

\* A login whose device code never expires.
NeverPastExpiry(t, expiresAt) == FALSE

\* time.Now().After(info.ExpiresAt) at the instant t.
PastExpiry(t, expiresAt) == t > expiresAt

\* case ssoTokenPollingTickMsg, handled at the instant t
ssoTokenPollingTickMsg(info, t) ==
    IF PastExpiry(t, info.expiresAt)
    THEN Result([m EXCEPT !.errorMessage = "Authentication timed out",
                          !.state = stateSelectSSO],
                heap, EmptyBag)
    ELSE Result([m EXCEPT !.loadingText = "Waiting for authentication..."],
                heap, One(pollForSSOTokenCmd(info)))

\* `if len(accounts) > maxAccountsForRoleLoading { return nil }`
OverRoleLoadingLimit(n) == n > maxAccountsForRoleLoading

\* startLoadingRoles(accessToken, accounts)
startLoadingRoles(accessToken, arr, hp, profile, born) ==
    IF OverRoleLoadingLimit(Len(Arr(hp, arr))) THEN EmptyBag
    ELSE One(loadNextRoleCmd(arr, 0, accessToken, profile, born))

\* A loader without the limit.
AnyLength(n) == TRUE

\* `if len(m.accounts) <= maxAccountsForRoleLoading`
UnderRoleLoadingLimit(n) == n <= maxAccountsForRoleLoading

\* model.selectLastUsedAccount(profileName): the position the cursor of the
\* account list is put on, counted from 1; `for i, acc := range m.accounts`
\* selects the index of the first account that bears the saved name, and
\* the cursor stays where it is when there is none.
selectLastUsedAccount(file, profileName, accounts, cursor) ==
    LET hits == {i \in 1..Len(accounts) :
                    StoreHolds(file, profileName, Key("last_account"), accounts[i].Name)}
    IN IF profileName = NoProfile \/ hits = {} THEN cursor
       ELSE CHOOSE i \in hits : \A k \in hits : i <= k

\* case fetchAccountsSuccessMsg; msg.accounts is a fresh backing array
fetchAccountsSuccessMsg(accounts, requestID) ==
    IF IsOutdated(requestID, m) THEN Result(m, heap, EmptyBag)
    ELSE
    LET arr == Len(heap) + 1
        hp == Append(heap, accounts)
        save == IF m.selectedSSO # NoProfile
                THEN One(saveCachedAccountsCmd(m.selectedSSO, StartURLOf(m.selectedSSO),
                                               arr, m.currentRequestID))
                ELSE EmptyBag
    IN IF m.usingCachedAccounts
       THEN Result([m EXCEPT !.accounts = arr], hp, save)
       ELSE Result([m EXCEPT !.accounts = arr,
                             !.state = stateSelectAccount,
                             !.errorMessage = "",
                             !.usingCachedAccounts = FALSE,
                             !.loadingText = "",
                             !.accountItems = makeAccountItems(accounts),
                             !.accountCursor =
                                 selectLastUsedAccount(profileStore, m.selectedSSO,
                                                       accounts, @)],
                   hp,
                   save (+) (IF UnderRoleLoadingLimit(Len(accounts))
                             THEN startLoadingRoles(m.accessToken, arr, hp,
                                                    m.selectedSSO, m.currentRequestID)
                             ELSE EmptyBag))

\* case fetchAccountsErrMsg
fetchAccountsErrMsg(err, requestID) ==
    IF IsOutdated(requestID, m) THEN Result(m, heap, EmptyBag)
    ELSE Result([m EXCEPT !.errorMessage = err, !.state = StateAfterError],
                heap, EmptyBag)

\* case credentialsSetMsg
credentialsSetMsg ==
    Result([m EXCEPT !.state = stateSessionSuccess], heap, EmptyBag)

\* case loadRolesErrMsg
loadRolesErrMsg(accountID) ==
    LET idx == IndexOf(IDs(Arr(heap, m.accounts)), accountID, 1)
        hp == IF idx = 0 THEN heap
              ELSE [heap EXCEPT ![m.accounts][idx].Roles = <<ErrorLoadingRoles>>,
                                ![m.accounts][idx].RolesLoaded = TRUE]
    IN Result([m EXCEPT !.accountItems =
                            IF idx = 0 THEN @ ELSE makeAccountItems(Arr(hp, m.accounts)),
                        !.loadingText = ""],
              hp, EmptyBag)

\* case loadNextRoleMsg
loadNextRoleMsg(msg) ==
    IF msg.currentIdx >= Len(Arr(heap, msg.arr)) THEN Result(m, heap, EmptyBag)
    ELSE LET acc == heap[msg.arr][msg.currentIdx + 1] IN
         IF ~acc.RolesLoaded
         THEN Result(m, heap,
                     One(loadAccountRolesCmd(msg.accessToken, acc.AccountID,
                                             msg.currentIdx, msg.arr, msg.profile,
                                             msg.born, TRUE)))
         ELSE Result(m, heap,
                     One(loadNextRoleCmd(msg.arr, msg.currentIdx + 1, msg.accessToken,
                                         msg.profile, msg.born)))

\* case updateRolesMsg; born is the request the finished load was started under
updateRolesMsg(accountID, roles, currentIdx, profile, born) ==
    LET idx == IndexOf(IDs(Arr(heap, m.accounts)), accountID, 1)
        hp == IF idx = 0 THEN heap
              ELSE [heap EXCEPT ![m.accounts][idx].Roles = roles,
                                ![m.accounts][idx].RolesLoaded = TRUE]
        save == IF idx # 0 /\ m.selectedSSO # NoProfile
                THEN One(saveCachedAccountsCmd(m.selectedSSO, StartURLOf(m.selectedSSO),
                                               m.accounts, born))
                ELSE EmptyBag
        isSelected == /\ idx # 0
                      /\ m.selectedAcc # NoAcc
                      /\ heap[m.selectedAcc.arr][m.selectedAcc.idx].AccountID = accountID
        m1 == IF idx = 0 THEN m
              ELSE [m EXCEPT !.selectedAcc =
                                 IF isSelected THEN [arr |-> m.accounts, idx |-> idx] ELSE @,
                             !.roleItems = IF isSelected THEN makeRoleItems(roles) ELSE @,
                             !.loadingText = IF isSelected THEN "" ELSE @,
                             !.accountItems = makeAccountItems(Arr(hp, m.accounts))]
    IN Result(m1, hp,
              save (+) (IF UnderRoleLoadingLimit(Len(Arr(heap, m.accounts)))
                        THEN One(loadNextRoleCmd(m.accounts, currentIdx + 1,
                                                 m.accessToken, profile, born))
                        ELSE EmptyBag))

\* The step that delivers the message of the finished command c.
Deliver(act, outcome, c, r, calls) ==
    /\ m' = r.m
    /\ heap' = r.heap
    /\ cmds' = (cmds (-) One(c)) (+) r.spawn
    /\ last' = Step(act, outcome, c, calls)


\* ------------------------------------------------------------ user input
\* A key press arrives; the nanosecond clock has advanced since the last one.
KeyPress ==
    /\ nano < budget
    /\ nano' = nano + 1

\* The commands that read the clock.
ReadsClock(c) == c.kind \in {"startSSOLogin", "pollForSSOToken", "pollSleep"}

\* Time passes.  Only the commands of ReadsClock read the clock, so the model
\* lets time pass while one of them is in flight.
Tick ==
    /\ now < MaxTime
    /\ \/ \E c \in BagToSet(cmds) : ReadsClock(c)
       \/ direct.pc = "start"
    /\ now' = now + 1
    /\ last' = Step("Tick", "", NoCmd, {})
    /\ UNCHANGED <<m, heap, tokenStore, accountCache, awsConfig, credentials, cmds, nano, direct, profileStore, savers, budget>>

\* enter in stateSelectSSO on profile p of the list; clientOk is the outcome
\* of aws.NewClient.
SelectProfile(p, clientOk) ==
    /\ direct.pc = "off"
    /\ m.state = stateSelectSSO
    /\ \E i \in 1..Len(m.ssoProfiles) : m.ssoProfiles[i] = Profile(p)
    /\ KeyPress
    /\ LET newRequestID == RequestID(p, nano + 1)
           switching == m.selectedSSO = NoProfile \/ m.selectedSSO # p
           m1 == [m EXCEPT !.currentRequestID = newRequestID,
                           !.accounts = IF switching THEN 0 ELSE @,
                           !.accountItems = IF switching THEN <<>> ELSE @,
                           !.usingCachedAccounts = IF switching THEN FALSE ELSE @,
                           !.selectedSSO = p,
                           !.isAuthenticating = TRUE]
           loaded == LoadCachedAccounts(accountCache, StartURLOf(p))
           loadedAccounts == loaded.Accounts
           useCache == Len(loadedAccounts) > 0
           cachedAccounts ==
               [i \in 1..Len(loadedAccounts) |->
                   LET customRegion ==
                           GetAccountRegion(profileStore, p, loadedAccounts[i].Name)
                   IN IF customRegion # ""
                      THEN [loadedAccounts[i] EXCEPT !.Region = customRegion]
                      ELSE loadedAccounts[i]]
           m2 == [m1 EXCEPT !.accounts = IF useCache THEN Len(heap) + 1 ELSE @,
                            !.usingCachedAccounts = IF useCache THEN TRUE ELSE @,
                            !.accountItems =
                                IF useCache THEN makeAccountItems(cachedAccounts) ELSE @,
                            !.accountCursor =
                                IF useCache
                                THEN selectLastUsedAccount(profileStore, p,
                                                           cachedAccounts, @)
                                ELSE @,
                            !.state = stateSelectAccount,
                            !.loadingText = "Starting SSO login process..."]
       IN IF ~clientOk
          THEN /\ m' = [m1 EXCEPT !.errorMessage = "Failed to initialize AWS client"]
               /\ last' = Step("SelectProfile", "", NoCmd, {})
               /\ UNCHANGED <<heap, cmds, savers>>
          ELSE /\ m' = m2
               /\ heap' = IF useCache THEN Append(heap, cachedAccounts) ELSE heap
               /\ savers' = savers (+) One(saveLastSelectedSSOProfile(p))
               /\ cmds' = cmds (+) One(startSSOLoginCmd(StartURLOf(p), newRequestID, p))
               /\ last' = Step("SelectProfile", loaded.err, NoCmd, {})
    /\ UNCHANGED <<tokenStore, accountCache, awsConfig, credentials, profileStore, now, direct, budget>>

\* esc
Esc ==
    /\ \/ /\ m.state = stateSelectAccount
          /\ m' = [m EXCEPT !.currentRequestID = NoRequestID,
                            !.state = stateSelectSSO,
                            !.errorMessage = ""]
       \/ /\ m.state \in {stateSelectRole, stateSessionSuccess}
          /\ m' = [m EXCEPT !.state = stateSelectAccount]
    /\ KeyPress
    /\ last' = Step("Esc", "", NoCmd, {})
    /\ UNCHANGED <<heap, tokenStore, accountCache, awsConfig, credentials, cmds, now, direct, profileStore, savers, budget>>

\* enter in stateSelectAccount with the cursor on the i-th displayed item
OpenAccount(i) ==
    /\ m.state = stateSelectAccount
    /\ i \in 1..Len(m.accountItems)
    /\ LET idx == IndexOf(Names(Arr(heap, m.accounts)), m.accountItems[i], 1) IN
       /\ idx > 0
       /\ LET acc == heap[m.accounts][idx]
              m1 == [m EXCEPT !.selectedAcc = [arr |-> m.accounts, idx |-> idx],
                              !.currentRequestID = NoRequestID,
                              !.state = stateSelectRole]
          IN IF acc.RolesLoaded
             THEN /\ m' = [m1 EXCEPT !.roleItems = makeRoleItems(acc.Roles),
                                     !.loadingText = ""]
                  /\ UNCHANGED cmds
             ELSE /\ BagCardinality(cmds) < MaxInFlight
                  /\ m' = [m1 EXCEPT !.loadingText = "Loading roles..."]
                  /\ cmds' = cmds (+) One(loadAccountRolesCmd(m.accessToken, acc.AccountID,
                                                             idx - 1, m.accounts,
                                                             m.selectedSSO, NoRequestID,
                                                             FALSE))
       /\ savers' = IF m.selectedSSO # NoProfile
                     THEN savers (+) One(saveLastSelectedAccount(
                                             m.selectedSSO, [arr |-> m.accounts, idx |-> idx]))
                     ELSE savers
    /\ KeyPress
    /\ last' = Step("OpenAccount", "", NoCmd, {})
    /\ UNCHANGED <<heap, tokenStore, accountCache, awsConfig, credentials, profileStore, now, direct, budget>>

\* enter in stateSelectRole with the cursor on the j-th displayed role
ConfirmRole(j) ==
    /\ m.state = stateSelectRole
    /\ m.loadingText = ""
    /\ j \in 1..Len(m.roleItems)
    /\ BagCardinality(cmds) < MaxInFlight
    /\ LET acc == heap[m.selectedAcc.arr][m.selectedAcc.idx] IN
       cmds' = cmds (+) One(getRoleCredentialsCmd(m.accessToken, acc.AccountID,
                                                  m.roleItems[j], m.selectedAcc,
                                                  DefaultRegionOf(m.selectedSSO),
                                                  m.currentRequestID, m.selectedSSO))
    /\ heap' = [heap EXCEPT ![m.selectedAcc.arr][m.selectedAcc.idx].SelectedRole =
                                m.roleItems[j]]
    /\ savers' = IF m.selectedSSO # NoProfile
                  THEN savers (+) One(saveLastSelectedRole(m.selectedSSO, m.selectedAcc))
                  ELSE savers
    /\ KeyPress
    /\ last' = Step("ConfirmRole", "", NoCmd, {})
    /\ UNCHANGED <<m, tokenStore, accountCache, awsConfig, credentials, profileStore, now, direct, budget>>


\* ---------------------------------------------------- commands completing
InFlight(kind) == {c \in BagToSet(cmds) : c.kind = kind}

\* client.StartSSOLogin: the calls made up to the given outcome.
StartSSOLoginOutcomes == {"registered", "registerFailed", "deviceAuthFailed"}
StartSSOLoginCalls(outcome) ==
    IF outcome = "registerFailed" THEN {"RegisterClient"}
    ELSE {"RegisterClient", "StartDeviceAuthorization"}
StartSSOLoginError(outcome) ==
    IF outcome = "registerFailed" THEN "failed to register OIDC client"
    ELSE "failed to start device authorization"

\* The command of startSSOLogin runs and its message is handled.
StartSSOLoginDone ==
    \E c \in InFlight("startSSOLogin"), outcome \in StartSSOLoginOutcomes :
        /\ LET cachedToken == LoadToken(tokenStore, c.startUrl, now) IN
           IF cachedToken.found
           THEN Deliver("startSSOLogin", "cached", c,
                        ssoLoginSuccessMsg(cachedToken.AccessToken, c.requestID), {})
           ELSE IF outcome = "registered"
           THEN Deliver("startSSOLogin", outcome, c,
                        SSOLoginInfoMsg([c EXCEPT !.expiresAt =
                                             now + DeviceExpiresInSeconds * TicksPerSecond,
                                                  !.interval =
                                             IntervalSecondsOf(c.startUrl)]),
                        StartSSOLoginCalls(outcome))
           ELSE Deliver("startSSOLogin", outcome, c,
                        ssoLoginErrMsg(StartSSOLoginError(outcome), c.requestID),
                        StartSSOLoginCalls(outcome))
        /\ UNCHANGED <<tokenStore, accountCache, awsConfig, credentials, now, nano, direct, profileStore, savers, budget>>

\* What client.CreateToken can return.
CreateTokenOutcomes ==
    {"AuthorizationPendingException", "SlowDownException", "ExpiredTokenException",
     "AccessDeniedException", "transport error", "empty token", "token"}

\* The error pollForSSOToken reports for a failed CreateToken at the instant
\* t, or "" when it sleeps and ticks instead.
PollError(outcome, t, expiresAt) ==
    CASE outcome = "AuthorizationPendingException" ->
             IF PastExpiry(t, expiresAt) THEN "authentication timed out" ELSE ""
      [] outcome = "SlowDownException" -> ""
      [] outcome = "ExpiredTokenException" -> "device code expired"
      [] outcome = "AccessDeniedException" -> "API error: AccessDeniedException"
      [] outcome = "transport error" ->
             IF PastExpiry(t, expiresAt) THEN "authentication timed out" ELSE ""
      [] OTHER -> ""

\* The command of pollForSSOToken calls CreateToken and either returns a
\* terminal message, which is handled, or starts its sleep.
PollReturn ==
    \E c \in InFlight("pollForSSOToken"), outcome \in CreateTokenOutcomes :
        /\ IF outcome = "token"
           THEN /\ tokenStore' = SaveToken(tokenStore, c.startUrl, NewToken(c.startUrl),
                                           now + TokenLifetime)
                /\ Deliver("pollForSSOToken", outcome, c,
                           ssoLoginSuccessMsg(NewToken(c.startUrl), c.requestID),
                           {"CreateToken"})
           ELSE /\ UNCHANGED tokenStore
                /\ IF PollError(outcome, now, c.expiresAt) # ""
                   THEN Deliver("pollForSSOToken", outcome, c,
                                ssoLoginErrMsg(PollError(outcome, now, c.expiresAt),
                                               c.requestID),
                                {"CreateToken"})
                   ELSE Deliver("pollForSSOToken", outcome, c,
                                Result(m, heap, One(pollSleepCmd(c, now + PollSleep))),
                                {"CreateToken"})
        /\ UNCHANGED <<accountCache, awsConfig, credentials, now, nano, direct, profileStore, savers, budget>>

\* The sleep of pollForSSOToken is over and its tick is handled.
PollTick ==
    \E c \in InFlight("pollSleep") :
        /\ now >= c.wakeAt
        /\ Deliver("ssoTokenPollingTick", "", c, ssoTokenPollingTickMsg(c, now), {})
        /\ UNCHANGED <<tokenStore, accountCache, awsConfig, credentials, now, nano, direct, profileStore, savers, budget>>

\* The command c of fetchAccounts runs with the remote pages listing remote,
\* and its fetchAccountsSuccessMsg is handled.
FetchAccountsListed(c, remote) ==
    LET r == fetchAccountsSuccessMsg(ListAccounts(Arr(heap, c.existing), remote),
                                     c.requestID)
    IN /\ m' = r.m
       /\ heap' = r.heap
       /\ cmds' = (cmds (-) One(c)) (+) r.spawn
       /\ last' = [Step("fetchAccounts", "listed", c, {"ListAccounts"})
                      EXCEPT !.listed = remote]

\* The command of fetchAccounts runs and its message is handled.
FetchAccountsDone ==
    \E c \in InFlight("fetchAccounts"), ok \in BOOLEAN :
        /\ IF ok
           THEN \E remote \in RemoteAccountsOf(c.profile) : FetchAccountsListed(c, remote)
           ELSE Deliver("fetchAccounts", "failed", c,
                        fetchAccountsErrMsg("failed to list accounts", c.requestID),
                        {"ListAccounts"})
        /\ UNCHANGED <<tokenStore, accountCache, awsConfig, credentials, now, nano, direct, profileStore, savers, budget>>

\* A loadNextRoleMsg is handled.
LoadNextRole ==
    \E c \in InFlight("loadNextRole") :
        /\ Deliver("loadNextRole", "", c, loadNextRoleMsg(c), {})
        /\ UNCHANGED <<tokenStore, accountCache, awsConfig, credentials, now, nano, direct, profileStore, savers, budget>>

\* The command of loadAccountRoles runs and its message is handled.
RoleLoadDone ==
    \E c \in InFlight("loadAccountRoles"), ok \in BOOLEAN :
        /\ IF ok
           THEN \E roles \in RemoteRoles :
                    Deliver("loadAccountRoles", "listed", c,
                            updateRolesMsg(c.accountID, roles, c.currentIdx, c.profile, c.born),
                            {"ListAccountRoles"})
           ELSE Deliver("loadAccountRoles", "failed", c, loadRolesErrMsg(c.accountID),
                        {"ListAccountRoles"})
        /\ UNCHANGED <<tokenStore, accountCache, awsConfig, credentials, now, nano, direct, profileStore, savers, budget>>

GetRoleCredentialsOutcomes == {"written", "apiFailed", "writeFailed"}

\* getRoleCredentials: the region of the account behind selectedAcc when the
\* command runs, else the default region of the profile.
EffectiveRegion(c, hp) ==
    IF c.selectedAcc # NoAcc /\ hp[c.selectedAcc.arr][c.selectedAcc.idx].Region # ""
    THEN hp[c.selectedAcc.arr][c.selectedAcc.idx].Region
    ELSE c.ssoDefaultRegion

\* The command of getRoleCredentials runs and its message is handled.
GetRoleCredentialsDone ==
    \E c \in InFlight("getRoleCredentials"), outcome \in GetRoleCredentialsOutcomes :
        /\ IF outcome = "written"
           THEN /\ credentials' = WriteCredentials(credentials,
                                                   RoleCredentials(c.accountID, c.roleName),
                                                   EffectiveRegion(c, heap))
                /\ Deliver("getRoleCredentials", outcome, c, credentialsSetMsg, {"GetRoleCredentials"})
           ELSE /\ UNCHANGED credentials
                /\ Deliver("getRoleCredentials", outcome, c,
                           ssoLoginErrMsg(IF outcome = "apiFailed"
                                          THEN "failed to get role credentials"
                                          ELSE "failed to write credentials",
                                          c.requestID),
                           {"GetRoleCredentials"})
        /\ UNCHANGED <<tokenStore, accountCache, awsConfig, now, nano, direct, profileStore, savers, budget>>

\* The goroutine of SaveCachedAccounts runs: it sorts the slice it was handed
\* in place and writes the sorted accounts into the record of the start URL.
SaveCachedAccountsRun ==
    \E c \in InFlight("saveCachedAccounts") :
        /\ LET sorted == SortAccounts(Arr(heap, c.arr)) IN
           /\ heap' = IF c.arr = 0 THEN heap ELSE [heap EXCEPT ![c.arr] = sorted]
           /\ accountCache' = UpsertCachedAccounts(accountCache, c.profile, c.startUrl, sorted)
        /\ cmds' = cmds (-) One(c)
        /\ last' = Step("SaveCachedAccounts", "", c, {})
        /\ UNCHANGED <<m, tokenStore, awsConfig, credentials, now, nano, direct, profileStore, savers, budget>>

\* directSessionSetup from the token check to the start of polling.
DirectLogin ==
    \E outcome \in StartSSOLoginOutcomes :
        /\ direct.pc = "start"
        /\ LET startUrl == StartURLOf(direct.profile)
               cachedToken == LoadToken(tokenStore, startUrl, now)
           IN IF cachedToken.found
              THEN /\ direct' = [direct EXCEPT !.pc = "authenticated",
                                               !.accessToken = cachedToken.AccessToken]
                   /\ last' = Step("directLogin", "cached", NoCmd, {})
              ELSE IF outcome = "registered"
              THEN /\ direct' = [direct EXCEPT !.pc = "polling",
                                               !.expiresAt = now + DeviceExpiresInSeconds
                                                                     * TicksPerSecond]
                   /\ last' = Step("directLogin", outcome, NoCmd,
                                   StartSSOLoginCalls(outcome))
              ELSE /\ direct' = [direct EXCEPT !.pc = "failed",
                                               !.err = StartSSOLoginError(outcome)]
                   /\ last' = Step("directLogin", outcome, NoCmd,
                                   StartSSOLoginCalls(outcome))
        /\ UNCHANGED <<m, heap, tokenStore, accountCache, awsConfig, credentials, cmds, now, nano, profileStore, savers, budget>>

\* ------------------------------------------------------- direct sessions
\* main with positional arguments: the dispatch on their number, then
\* directSessionSetup step by step (without --browser), then the exit.
DirectRun(args, regionFlag) ==
    [DirectOff EXCEPT !.pc = "main", !.args = args, !.regionFlag = regionFlag]

\* os.Exit(0) at the end of fatalError, and in main after directSessionSetup
fatalErrorExitCode == 0
mainExitCode == 0

Contains(seq, x) == \E i \in 1..Len(seq) : seq[i] = x

Failed(err) == [direct EXCEPT !.pc = "failed", !.err = err]

\* The role lists ListAccountRoles can return for the account.
DirectRoleLists == RemoteRoles \cup {<<>>}

\* main: the number of arguments, and directSessionSetup up to the AWS client
DirectMain ==
    /\ direct.pc = "main"
    /\ \E clientOk \in BOOLEAN :
         LET args == direct.args
             names == {p.Name : p \in LoadProfiles(awsConfig, profileStore)}
         IN direct' =
               IF Len(args) = 0 THEN [direct EXCEPT !.pc = "off"]
               ELSE IF Len(args) < 2 THEN Failed("Too few arguments")
               ELSE IF Len(args) > 3 THEN Failed("Too many arguments")
               ELSE IF IniLoad(profileStore).err = "parse"
               THEN Failed("failed to load SSO profiles")
               ELSE IF args[1] \notin names THEN Failed("SSO profile not found")
               ELSE IF ~clientOk THEN Failed("failed to initialize AWS client")
               ELSE [direct EXCEPT !.pc = "start", !.profile = args[1]]
    /\ last' = Step("directMain", direct'.err, NoCmd, {})
    /\ UNCHANGED <<m, heap, tokenStore, accountCache, awsConfig, credentials, profileStore, cmds,
                   savers, now, nano, budget>>

\* One round of the polling loop: the ticker fires after Interval seconds
\* and CreateToken is called, unless the device code expires first.
DirectPoll ==
    /\ direct.pc = "polling"
    /\ LET startUrl == StartURLOf(direct.profile)
           fires == now + IntervalSecondsOf(startUrl) * TicksPerSecond
       IN \/ /\ fires >= direct.expiresAt
             /\ now' = direct.expiresAt
             /\ direct' = Failed("authentication timed out")
             /\ last' = Step("directPoll", "timeout", NoCmd, {})
             /\ UNCHANGED tokenStore
          \/ /\ fires <= direct.expiresAt
             /\ now' = fires
             /\ \E outcome \in CreateTokenOutcomes :
                  /\ last' = Step("directPoll", outcome, NoCmd, {"CreateToken"})
                  /\ IF outcome = "token"
                     THEN /\ tokenStore' = SaveToken(tokenStore, startUrl,
                                                     NewToken(startUrl),
                                                     fires + TokenLifetime)
                          /\ direct' = [direct EXCEPT !.pc = "authenticated",
                                                      !.accessToken = NewToken(startUrl)]
                     ELSE /\ UNCHANGED tokenStore
                          /\ direct' =
                               CASE outcome \in {"AuthorizationPendingException",
                                                 "SlowDownException", "empty token"} ->
                                        direct
                                 [] outcome = "ExpiredTokenException" ->
                                        Failed("device code expired")
                                 [] outcome = "AccessDeniedException" ->
                                        Failed("API error: AccessDeniedException")
                                 [] OTHER -> Failed("failed to create token")
    /\ UNCHANGED <<m, heap, accountCache, awsConfig, credentials, profileStore, cmds, savers, nano,
                   budget>>

\* ListAccounts(ctx, accessToken, nil) and the account of the given name
DirectListAccounts ==
    /\ direct.pc = "authenticated"
    /\ \E ok \in BOOLEAN, remote \in RemoteAccountsOf(direct.profile) :
         LET accounts == ListAccounts(<<>>, remote)
             idx == IndexOf(Names(accounts), direct.args[2], 1)
         IN /\ direct' = IF ~ok THEN Failed("failed to list accounts")
                         ELSE IF idx = 0 THEN Failed("account not found")
                         ELSE [direct EXCEPT !.pc = "account", !.account = accounts[idx]]
            /\ last' = Step("directListAccounts", direct'.err, NoCmd, {"ListAccounts"})
    /\ UNCHANGED <<m, heap, tokenStore, accountCache, awsConfig, credentials, profileStore, cmds,
                   savers, now, nano, budget>>

\* The role by strict precedence: a saved role wins whether listed or not.
StrictResolveRole(roleNameArg, lastUsedRole, roles) ==
    IF roleNameArg # "" THEN roleNameArg
    ELSE IF lastUsedRole # "" THEN lastUsedRole
    ELSE IF Len(roles) > 0 THEN roles[1]
    ELSE "AdministratorAccess"

\* The role of a direct session whose role argument passed the validation:
\* the saved role only if it is listed, or if nothing is listed.
ResolveRole(roleNameArg, lastUsedRole, roles) ==
    IF roleNameArg # "" THEN roleNameArg
    ELSE IF lastUsedRole # "" /\ Contains(roles, lastUsedRole) THEN lastUsedRole
    ELSE IF Len(roles) > 0 THEN roles[1]
    ELSE IF lastUsedRole # "" THEN lastUsedRole
    ELSE "AdministratorAccess"

\* The third argument, "" when there are two.
RoleNameArg(args) == IF Len(args) = 3 THEN args[3] ELSE ""

\* LoadAccountRoles and the choice of the role
DirectResolveRole ==
    /\ direct.pc = "account"
    /\ \E ok \in BOOLEAN, listed \in DirectRoleLists :
         LET roles == IF ok THEN listed ELSE <<>>
             roleNameArg == RoleNameArg(direct.args)
             lastUsedRole == GetLastSelectedRole(profileStore, direct.profile,
                                                 direct.account.Name)
         IN /\ direct' =
                 IF ~ok /\ roleNameArg = ""
                 THEN Failed("failed to load roles and no specific role provided")
                 ELSE IF roleNameArg # "" /\ Len(roles) > 0 /\ ~Contains(roles, roleNameArg)
                 THEN Failed("specified role not found for account")
                 ELSE [direct EXCEPT !.pc = "role", !.roles = roles,
                                     !.roleName = ResolveRole(roleNameArg, lastUsedRole,
                                                              roles)]
            /\ last' = Step("directResolveRole", direct'.err, NoCmd, {"ListAccountRoles"})
    /\ UNCHANGED <<m, heap, tokenStore, accountCache, awsConfig, credentials, profileStore, cmds,
                   savers, now, nano, budget>>

\* --region, else the region saved for the account, else the default region
\* of the profile
DirectRegion(file, d) ==
    IF d.regionFlag # "" THEN d.regionFlag
    ELSE IF GetAccountRegion(file, d.profile, d.account.Name) # ""
    THEN GetAccountRegion(file, d.profile, d.account.Name)
    ELSE SectionProfile(IniLoad(file).cfg, d.profile).DefaultRegion

\* GetRoleCredentials, WriteCredentials and the three preference saves
DirectFinish ==
    /\ direct.pc = "role"
    /\ \E outcome \in GetRoleCredentialsOutcomes :
         /\ last' = Step("directFinish", outcome, NoCmd, {"GetRoleCredentials"})
         /\ IF outcome = "written"
            THEN /\ credentials' = WriteCredentials(credentials,
                                       RoleCredentials(direct.account.AccountID,
                                                       direct.roleName),
                                       DirectRegion(profileStore, direct))
                 /\ profileStore' =
                        SaveLastSelectedRole(
                            SaveLastSelectedAccount(
                                SaveLastSelectedSSOProfile(profileStore, direct.profile),
                                direct.profile, direct.account.Name),
                            direct.profile, direct.account.Name, direct.roleName)
                 /\ direct' = [direct EXCEPT !.pc = "done"]
            ELSE /\ direct' = Failed(IF outcome = "apiFailed"
                                     THEN "failed to get role credentials"
                                     ELSE "failed to write credentials")
                 /\ UNCHANGED <<credentials, profileStore>>
    /\ UNCHANGED <<m, heap, tokenStore, accountCache, awsConfig, cmds, savers, now, nano, budget>>

\* The end of main: fatalError when directSessionSetup returned an error or
\* the number of arguments was wrong, os.Exit(0) after a session set up.
DirectExit ==
    /\ direct.pc \in {"done", "failed"}
    /\ direct' = [direct EXCEPT !.pc = "exited",
                                !.exitCode = IF direct.pc = "failed"
                                             THEN fatalErrorExitCode ELSE mainExitCode]
    /\ last' = Step("directExit", direct.pc, NoCmd, {})
    /\ UNCHANGED <<m, heap, tokenStore, accountCache, awsConfig, credentials, profileStore, cmds,
                   savers, now, nano, budget>>

\* ------------------------------------------------------- preference saves
\* The section, the key and the value a preference goroutine saves.  It reads
\* the account's name and role through m.selectedAcc when it runs.
SaverSection(s) == IF s.kind = "SaveLastSelectedSSOProfile" THEN "metadata" ELSE s.profile

SaverKey(s, hp) ==
    IF s.kind = "SaveLastSelectedSSOProfile" THEN Key("last_sso_profile")
    ELSE IF s.kind = "SaveLastSelectedAccount" THEN Key("last_account")
    ELSE AccountKey("last_role", hp[s.acc.arr][s.acc.idx].Name)

SaverValue(s, hp) ==
    IF s.kind = "SaveLastSelectedSSOProfile" THEN s.profile
    ELSE IF s.kind = "SaveLastSelectedAccount" THEN hp[s.acc.arr][s.acc.idx].Name
    ELSE hp[s.acc.arr][s.acc.idx].SelectedRole

\* The first half of a Save... function in its goroutine: ini.Load of the
\* whole profile store, and the one key set in the loaded configuration.
SaverLoad ==
    /\ \E s \in BagToSet(savers) :
         /\ s.pc = "start"
         /\ LET loaded == LoadOrEmpty(profileStore)
                cfg == WithKey(loaded.cfg, SaverSection(s), SaverKey(s, heap),
                               SaverValue(s, heap))
            IN savers' = IF loaded.err # "" THEN savers (-) One(s)
                         ELSE (savers (-) One(s))
                              (+) One([s EXCEPT !.pc = "loaded", !.cfg = cfg])
         /\ last' = Step("SaverLoad", s.kind, NoCmd, {})
    /\ UNCHANGED <<m, heap, tokenStore, accountCache, awsConfig, credentials, profileStore, cmds, now,
                   nano, direct, budget>>

\* The second half: cfg.SaveTo of the configuration it holds.
SaverWrite ==
    /\ \E s \in BagToSet(savers) :
         /\ s.pc = "loaded"
         /\ profileStore' = SaveTo(s.cfg)
         /\ savers' = savers (-) One(s)
         /\ last' = Step("SaverWrite", s.kind, NoCmd, {})
    /\ UNCHANGED <<m, heap, tokenStore, accountCache, awsConfig, credentials, cmds, now, nano, direct,
                   budget>>

\* ------------------------------------------------------ account regions
\* What the user leaves in the region input: nothing, or a region.
RegionInputs == {"", "eu-central-1"}

\* "r" on the account list, the cursor on the i-th item
OpenRegionInput(i) ==
    /\ m.state = stateSelectAccount
    /\ i \in 1..Len(m.accountItems)
    /\ LET idx == IndexOf(Names(Arr(heap, m.accounts)), m.accountItems[i], 1) IN
       /\ idx > 0
       /\ m' = [m EXCEPT !.selectedAcc = [arr |-> m.accounts, idx |-> idx],
                         !.state = stateSetAccountRegion]
    /\ KeyPress
    /\ last' = Step("OpenRegionInput", "", NoCmd, {})
    /\ UNCHANGED <<heap, tokenStore, accountCache, awsConfig, credentials, profileStore, cmds, savers,
                   now, direct, budget>>

\* enter on the region input: the region is saved, or cleared when the input
\* is empty, and written to the account of that name in m.accounts.
SubmitAccountRegion ==
    /\ m.state = stateSetAccountRegion
    /\ \E region \in RegionInputs :
         LET name == heap[m.selectedAcc.arr][m.selectedAcc.idx].Name
             idx == IndexOf(Names(Arr(heap, m.accounts)), name, 1)
             hp == IF idx = 0 THEN heap
                   ELSE [heap EXCEPT ![m.accounts][idx].Region = region]
         IN IF LoadOrEmpty(profileStore).err # ""
            THEN /\ m' = [m EXCEPT !.errorMessage = "Failed to save account region"]
                 /\ last' = Step("SubmitAccountRegion", "saveFailed", NoCmd, {})
                 /\ UNCHANGED <<heap, profileStore>>
            ELSE /\ profileStore' = SaveAccountRegion(profileStore, m.selectedSSO, name,
                                                      region)
                 /\ heap' = hp
                 /\ m' = [m EXCEPT !.accountItems = makeAccountItems(Arr(hp, m.accounts)),
                                   !.state = stateSelectAccount]
                 /\ last' = Step("SubmitAccountRegion", region, NoCmd, {})
    /\ KeyPress
    /\ UNCHANGED <<tokenStore, accountCache, awsConfig, credentials, cmds, savers, now, direct, budget>>

\* esc on the region input
EscRegion ==
    /\ m.state = stateSetAccountRegion
    /\ m' = [m EXCEPT !.state = stateSelectAccount]
    /\ KeyPress
    /\ last' = Step("EscRegion", "", NoCmd, {})
    /\ UNCHANGED <<heap, tokenStore, accountCache, awsConfig, credentials, profileStore, cmds, savers,
                   now, direct, budget>>

\* ctrl+c, and q outside the forms: the cached token of the selected profile
\* is cleared unless an account has been selected, and the program quits; its
\* goroutines end with it and it takes no further key.
Quit ==
    /\ direct.pc = "off"
    /\ m.state \in {stateSelectSSO, stateSelectAccount, stateSelectRole, stateSessionSuccess}
    /\ KeyPress
    /\ budget' = nano + 1
    /\ IF m.selectedSSO # NoProfile /\ m.selectedAcc = NoAcc
       THEN /\ tokenStore' = SaveToken(tokenStore, StartURLOf(m.selectedSSO), "", now)
            /\ last' = Step("Quit", "cleared", NoCmd, {})
       ELSE /\ UNCHANGED tokenStore
            /\ last' = Step("Quit", "", NoCmd, {})
    /\ cmds' = EmptyBag
    /\ savers' = EmptyBag
    /\ UNCHANGED <<m, heap, accountCache, awsConfig, credentials, profileStore, now, direct>>

\* The process is gone (it quit, or its terminal was closed) and the TUI is
\* started again: the goroutines of the old process are gone, the files stay,
\* and the new run has its own key presses.
Restart ==
    /\ direct.pc = "off"
    /\ nano + MaxKeys <= MaxSessionKeys
    /\ budget' = nano + MaxKeys
    /\ m' = initialModel(m.ssoProfiles)
    /\ heap' = <<>>
    /\ cmds' = EmptyBag
    /\ savers' = EmptyBag
    /\ last' = Step("Restart", "", NoCmd, {})
    /\ UNCHANGED <<tokenStore, accountCache, awsConfig, credentials, profileStore, now, nano, direct>>

\* ------------------------------------------------------ profile management
\* What the user types into the form: an alias, a company name and a default
\* region (the SSO region is always typed as eu-west-1).
FormAliases == {"", "P1", "P3", "metadata"}
FormCompanies == {"", "one", "two"}
FormRegions == {"eu-north-1", "us-east-1"}

\* fmt.Sprintf("https://%s.awsapps.com/start", companyName)
PortalURL(companyName) == IF companyName = "one" THEN StartURLOf("P1") ELSE StartURLOf("P2")

validateSSOForm(alias, companyName, ssoRegion, defaultRegion) ==
    IF alias = "" THEN "Alias cannot be empty"
    ELSE IF companyName = "" THEN "Company name cannot be empty"
    ELSE IF ssoRegion = "" THEN "SSO Region cannot be empty"
    ELSE IF defaultRegion = "" THEN "Default Region cannot be empty"
    ELSE ""

\* slices.Delete(s, idx, idx+1), idx counted from 1
DeleteAt(s, idx) == [i \in 1..(Len(s) - 1) |-> IF i < idx THEN s[i] ELSE s[i + 1]]

\* The three keys the user's profile work leaves alone.
UnchangedByProfileWork == <<heap, tokenStore, accountCache, awsConfig, credentials, cmds, savers, now,
                            direct, budget>>

\* "a" on the profile list
PressAdd ==
    /\ m.state = stateSelectSSO
    /\ m' = [m EXCEPT !.state = stateAddSSO, !.formError = ""]
    /\ KeyPress
    /\ last' = Step("PressAdd", "", NoCmd, {})
    /\ UNCHANGED <<profileStore, UnchangedByProfileWork>>

\* "e" on the profile list, the cursor on the i-th profile
PressEdit ==
    /\ m.state = stateSelectSSO
    /\ Len(m.ssoProfiles) > 0
    /\ \E i \in 1..Len(m.ssoProfiles) :
         LET idx == CHOOSE k \in 1..Len(m.ssoProfiles) :
                        /\ m.ssoProfiles[k].Name = m.ssoProfiles[i].Name
                        /\ \A l \in 1..(k - 1) : m.ssoProfiles[l].Name # m.ssoProfiles[i].Name
         IN m' = [m EXCEPT !.editingIndex = idx, !.state = stateEditSSO, !.formError = ""]
    /\ KeyPress
    /\ last' = Step("PressEdit", "", NoCmd, {})
    /\ UNCHANGED <<profileStore, UnchangedByProfileWork>>

\* "d" on the profile list, the cursor on the i-th profile
PressDelete ==
    /\ m.state = stateSelectSSO
    /\ Len(m.ssoProfiles) > 0
    /\ \E i \in 1..Len(m.ssoProfiles) :
         m' = [m EXCEPT !.deleteProfileName = m.ssoProfiles[i].Name,
                        !.state = stateDeleteConfirm]
    /\ KeyPress
    /\ last' = Step("PressDelete", "", NoCmd, {})
    /\ UNCHANGED <<profileStore, UnchangedByProfileWork>>

\* A form that takes every alias for new.
AliasNeverExists(profiles, alias) == FALSE

\* `for _, profile := range m.ssoProfiles { if profile.Name == alias`
AliasExists(profiles, alias) ==
    \E i \in 1..Len(profiles) : profiles[i].Name = alias

\* handleAddFormSubmission: enter on the submit button of the add form.
\* saveOk: the write of the profile store succeeds.
SubmitAddForm ==
    /\ m.state = stateAddSSO
    /\ \E alias \in FormAliases, companyName \in FormCompanies,
          defaultRegion \in FormRegions, saveOk \in BOOLEAN :
         LET err == validateSSOForm(alias, companyName, "eu-west-1", defaultRegion)
             exists == AliasExists(m.ssoProfiles, alias)
             newProfile == [Name |-> alias, StartURL |-> PortalURL(companyName),
                            SSORegion |-> "eu-west-1", DefaultRegion |-> defaultRegion]
             profiles == Append(m.ssoProfiles, newProfile)
         IN IF err # ""
            THEN /\ m' = [m EXCEPT !.formError = err]
                 /\ last' = Step("SubmitAddForm", "rejected", NoCmd, {})
                 /\ UNCHANGED profileStore
            ELSE IF exists
            THEN /\ m' = [m EXCEPT !.formError =
                                      "An SSO profile with this alias already exists"]
                 /\ last' = Step("SubmitAddForm", "rejected", NoCmd, {})
                 /\ UNCHANGED profileStore
            ELSE IF ~saveOk
            THEN /\ m' = [m EXCEPT !.ssoProfiles = profiles,
                                   !.formError = "Failed to save SSO profiles"]
                 /\ last' = Step("SubmitAddForm", "saveFailed", NoCmd, {})
                 /\ UNCHANGED profileStore
            ELSE /\ m' = [m EXCEPT !.ssoProfiles = profiles, !.formError = "",
                                   !.state = stateSelectSSO]
                 /\ profileStore' = SaveProfiles(profiles)
                 /\ last' = Step("SubmitAddForm", "saved", NoCmd, {})
    /\ KeyPress
    /\ UNCHANGED UnchangedByProfileWork

\* handleEditFormSubmission: enter on the submit button of the edit form
SubmitEditForm ==
    /\ m.state = stateEditSSO
    /\ \E alias \in FormAliases, companyName \in FormCompanies,
          defaultRegion \in FormRegions, saveOk \in BOOLEAN :
         LET err == validateSSOForm(alias, companyName, "eu-west-1", defaultRegion)
             exists == \E i \in 1..Len(m.ssoProfiles) :
                          m.ssoProfiles[i].Name = alias /\ i # m.editingIndex
             newProfile == [Name |-> alias, StartURL |-> PortalURL(companyName),
                            SSORegion |-> "eu-west-1", DefaultRegion |-> defaultRegion]
             profiles == [m.ssoProfiles EXCEPT ![m.editingIndex] = newProfile]
         IN IF err # ""
            THEN /\ m' = [m EXCEPT !.formError = err]
                 /\ last' = Step("SubmitEditForm", "rejected", NoCmd, {})
                 /\ UNCHANGED profileStore
            ELSE IF exists
            THEN /\ m' = [m EXCEPT !.formError =
                                      "An SSO profile with this alias already exists"]
                 /\ last' = Step("SubmitEditForm", "rejected", NoCmd, {})
                 /\ UNCHANGED profileStore
            ELSE IF ~saveOk
            THEN /\ m' = [m EXCEPT !.ssoProfiles = profiles,
                                   !.formError = "Failed to save SSO profiles"]
                 /\ last' = Step("SubmitEditForm", "saveFailed", NoCmd, {})
                 /\ UNCHANGED profileStore
            ELSE /\ m' = [m EXCEPT !.ssoProfiles = profiles, !.formError = "",
                                   !.editingIndex = -1, !.state = stateSelectSSO]
                 /\ profileStore' = SaveProfiles(profiles)
                 /\ last' = Step("SubmitEditForm", "saved", NoCmd, {})
    /\ KeyPress
    /\ UNCHANGED UnchangedByProfileWork

\* "y" on the delete confirmation
ConfirmDelete ==
    /\ m.state = stateDeleteConfirm
    /\ \E saveOk \in BOOLEAN :
         LET found == {k \in 1..Len(m.ssoProfiles) :
                          m.ssoProfiles[k].Name = m.deleteProfileName}
             idx == CHOOSE k \in found : \A l \in found : k <= l
             profiles == DeleteAt(m.ssoProfiles, idx)
         IN IF found = {}
            THEN /\ m' = [m EXCEPT !.state = stateSelectSSO, !.deleteProfileName = ""]
                 /\ last' = Step("ConfirmDelete", "missing", NoCmd, {})
                 /\ UNCHANGED profileStore
            ELSE IF ~saveOk
            THEN /\ m' = [m EXCEPT !.ssoProfiles = profiles,
                                   !.errorMessage = "Failed to save SSO profiles"]
                 /\ last' = Step("ConfirmDelete", "saveFailed", NoCmd, {})
                 /\ UNCHANGED profileStore
            ELSE /\ m' = [m EXCEPT !.ssoProfiles = profiles, !.state = stateSelectSSO,
                                   !.deleteProfileName = ""]
                 /\ profileStore' = SaveProfiles(profiles)
                 /\ last' = Step("ConfirmDelete", "saved", NoCmd, {})
    /\ KeyPress
    /\ UNCHANGED UnchangedByProfileWork

\* "n" on the delete confirmation
DeclineDelete ==
    /\ m.state = stateDeleteConfirm
    /\ m' = [m EXCEPT !.state = stateSelectSSO, !.deleteProfileName = ""]
    /\ KeyPress
    /\ last' = Step("DeclineDelete", "", NoCmd, {})
    /\ UNCHANGED <<profileStore, UnchangedByProfileWork>>

\* esc on a form or on the delete confirmation
EscForm ==
    /\ m.state \in {stateAddSSO, stateEditSSO, stateDeleteConfirm}
    /\ m' = IF m.state = stateDeleteConfirm
            THEN [m EXCEPT !.state = stateSelectSSO, !.deleteProfileName = ""]
            ELSE [m EXCEPT !.state = stateSelectSSO, !.formError = "",
                           !.editingIndex = -1]
    /\ KeyPress
    /\ last' = Step("EscForm", "", NoCmd, {})
    /\ UNCHANGED <<profileStore, UnchangedByProfileWork>>

Next ==
    \/ Tick
    \/ \E p \in Profiles, clientOk \in BOOLEAN : SelectProfile(p, clientOk)
    \/ Esc
    \/ \E i \in 1..MaxCursor : OpenAccount(i)
    \/ \E j \in 1..MaxCursor : ConfirmRole(j)
    \/ StartSSOLoginDone
    \/ PollReturn
    \/ PollTick
    \/ FetchAccountsDone
    \/ LoadNextRole
    \/ RoleLoadDone
    \/ GetRoleCredentialsDone
    \/ SaveCachedAccountsRun
    \/ DirectLogin

Spec == Init /\ [][Next]_vars

\* ------------------------------------------------- the credentials file runs
\* Writes of credentials over every prior content of the credentials file:
\* no file, a file that loads, and a file that does not load, each with any
\* of the sections default and work written by an earlier run.
MaxWrites == 2          \* writes of credentials per run

CredentialSections == {"default", "work"}
CredentialProfileNames == {"default", "work", "dev-admin"}
CredentialRegions == {"eu-north-1", "us-east-1"}
IssuedCredentials == {RoleCredentials("1", "Admin"), RoleCredentials("2", "ReadOnly")}

\* The files an earlier run leaves: one section per name of present.
WrittenFile(present) ==
    [exists |-> TRUE, wellFormed |-> TRUE,
     sections |-> [n \in present |->
                     WriteCredentialsWithProfile(NoFile, RoleCredentials("0", "Admin"),
                                                 "eu-west-1", n).sections[n]]]

PriorCredentialsFiles ==
    {NoFile} \cup
    {[WrittenFile(present) EXCEPT !.wellFormed = wf] :
        present \in SUBSET CredentialSections, wf \in BOOLEAN}

\* One call of config.WriteCredentialsWithProfile, after a role was confirmed.
WriteCredentialsRun ==
    /\ \E roleCredentials \in IssuedCredentials, region \in CredentialRegions,
          profileName \in CredentialProfileNames :
         /\ credentials' = WriteCredentialsWithProfile(credentials, roleCredentials,
                                                       region, profileName)
         /\ last' = Step("WriteCredentialsRun", profileName, NoCmd, {})
    /\ KeyPress
    /\ UNCHANGED <<m, heap, tokenStore, accountCache, awsConfig, profileStore, cmds, savers, now,
                   direct, budget>>

CredentialsInit ==
    /\ credentials \in PriorCredentialsFiles
    /\ awsConfig = NoAwsConfig
    /\ m = InitialModel
    /\ heap = <<>>
    /\ tokenStore = [u \in URLs |-> NoSection]
    /\ accountCache = NoCacheFile
    /\ profileStore = SaveProfiles(<<Profile("P1"), Profile("P2")>>)
    /\ cmds = EmptyBag
    /\ savers = EmptyBag
    /\ now = 0
    /\ nano = 0
    /\ direct = DirectOff
    /\ budget = MaxWrites
    /\ last = Step("Init", "", NoCmd, {})

CredentialsNext == WriteCredentialsRun

CredentialsSpec == CredentialsInit /\ [][CredentialsNext]_vars

\* ------------------------------------------------ the preference save runs
\* A run of the TUI with the token of P1 cached, so that no login is polled
\* for, together with the goroutines that save the preferences.
PrefInit ==
    /\ m = InitialModel
    /\ heap = <<>>
    /\ tokenStore = [u \in URLs |-> IF u = StartURLOf("P1") THEN CachedSection(u)
                                    ELSE NoSection]
    /\ accountCache = NoCacheFile
    /\ awsConfig = NoAwsConfig
    /\ credentials = NoFile
    /\ profileStore = SaveProfiles(<<Profile("P1"), Profile("P2")>>)
    /\ cmds = EmptyBag
    /\ savers = EmptyBag
    /\ now = 0
    /\ nano = 0
    /\ direct = DirectOff
    /\ budget = MaxKeys
    /\ last = Step("Init", "", NoCmd, {})

PrefNext ==
    \/ \E p \in Profiles, clientOk \in BOOLEAN : SelectProfile(p, clientOk)
    \/ \E i \in 1..MaxCursor : OpenAccount(i)
    \/ \E j \in 1..MaxCursor : ConfirmRole(j)
    \/ StartSSOLoginDone
    \/ FetchAccountsDone
    \/ LoadNextRole
    \/ RoleLoadDone
    \/ GetRoleCredentialsDone
    \/ SaveCachedAccountsRun
    \/ SaverLoad
    \/ SaverWrite

PrefSpec == PrefInit /\ [][PrefNext]_vars

\* ------------------------------------------------------ the account region runs
\* Runs of the TUI, one after another, with the token of P1 cached, in which
\* the user sets and clears the region of an account.  The files start as
\* earlier runs leave them: no region saved and no account cache, or a region
\* saved for the first account with the account cache written before or
\* after the region was set.
SavedRegion == "eu-central-1"

CachedList(region) ==
    SortAccounts([i \in 1..SmallLen |->
                    IF i = 1 THEN [NewAccount(SmallList[i]) EXCEPT !.Region = region]
                    ELSE NewAccount(SmallList[i])])

RegionInit ==
    /\ \E saved \in BOOLEAN, cached \in {"none", "before", "after"} :
         /\ saved <=> cached # "none"
         /\ profileStore =
                IF saved
                THEN SaveAccountRegion(SaveProfiles(<<Profile("P1"), Profile("P2")>>),
                                       "P1", SmallList[1], SavedRegion)
                ELSE SaveProfiles(<<Profile("P1"), Profile("P2")>>)
         /\ accountCache =
                IF cached = "none" THEN NoCacheFile
                ELSE UpsertCachedAccounts(NoCacheFile, "P1", StartURLOf("P1"),
                         CachedList(IF cached = "after" THEN SavedRegion ELSE ""))
    /\ m = InitialModel
    /\ heap = <<>>
    /\ tokenStore = [u \in URLs |-> IF u = StartURLOf("P1") THEN CachedSection(u)
                                    ELSE NoSection]
    /\ awsConfig = NoAwsConfig
    /\ credentials = NoFile
    /\ cmds = EmptyBag
    /\ savers = EmptyBag
    /\ now = 0
    /\ nano = 0
    /\ direct = DirectOff
    /\ budget = MaxKeys
    /\ last = Step("Init", "", NoCmd, {})

RegionNext ==
    \/ \E clientOk \in BOOLEAN : SelectProfile("P1", clientOk)
    \/ \E i \in 1..MaxCursor : OpenRegionInput(i)
    \/ SubmitAccountRegion
    \/ EscRegion
    \/ \E i \in 1..MaxCursor : OpenAccount(i)
    \/ \E j \in 1..MaxCursor : ConfirmRole(j)
    \/ StartSSOLoginDone
    \/ FetchAccountsDone
    \/ LoadNextRole
    \/ RoleLoadDone
    \/ GetRoleCredentialsDone
    \/ SaveCachedAccountsRun
    \/ Restart

RegionSpec == RegionInit /\ [][RegionNext]_vars

\* ------------------------------------------------------- the direct runs
\* Runs of sesh with none to four positional arguments, a known or unknown
\* profile and account, with or without --region, over the token and role
\* preference earlier runs can have left.
DirectProfileArgs == {"P1", "P2", "PX"}
DirectAccountArgs == {0, SmallList[1], BigList[1]}
DirectRoleArgs == {"Admin", "Old"}
DirectRegionFlags == {"", "ap-south-1"}
SavedRoles == {"", "Admin", "Old"}
MaxArgs == 4

DirectInit ==
    /\ \E n \in 0..MaxArgs, ssoName \in DirectProfileArgs,
          accountName \in DirectAccountArgs, roleNameArg \in DirectRoleArgs,
          regionFlag \in DirectRegionFlags :
         direct = DirectRun([i \in 1..n |-> IF i = 1 THEN ssoName
                                             ELSE IF i = 2 THEN accountName
                                             ELSE IF i = 3 THEN roleNameArg
                                             ELSE "extra"],
                            regionFlag)
    /\ \E lastUsedRole \in SavedRoles :
         profileStore =
             IF lastUsedRole = "" THEN SaveProfiles(<<Profile("P1"), Profile("P2")>>)
             ELSE SaveLastSelectedRole(SaveProfiles(<<Profile("P1"), Profile("P2")>>),
                                       "P1", SmallList[1], lastUsedRole)
    /\ \E has \in SUBSET URLs :
         tokenStore = [u \in URLs |-> IF u \in has THEN CachedSection(u) ELSE NoSection]
    /\ m = InitialModel
    /\ heap = <<>>
    /\ accountCache = NoCacheFile
    /\ awsConfig = NoAwsConfig
    /\ credentials = NoFile
    /\ cmds = EmptyBag
    /\ savers = EmptyBag
    /\ now = 0
    /\ nano = 0
    /\ budget = MaxKeys
    /\ last = Step("Init", "", NoCmd, {})

DirectNext ==
    \/ DirectMain
    \/ DirectLogin
    \/ DirectPoll
    \/ DirectListAccounts
    \/ DirectResolveRole
    \/ DirectFinish
    \/ DirectExit

DirectSpec == DirectInit /\ [][DirectNext]_vars

\* ---------------------------------------------------- the profile list runs
\* A run of the TUI in which the user adds, edits and deletes profiles.  The
\* profile store starts as earlier runs can leave it: the two profiles, and
\* any of the preferences saved for the first one.
MaxProfileKeys == 4     \* key presses per run of profile work

PreferenceChoices == [lastProfile : {"", "P1"}, lastAccount : {0, 1},
                      lastRole : {"", "Admin"}, region : {"", "eu-central-1"},
                      profileName : {"", "dev-admin"}]

StoreWith(pref) ==
    LET s0 == SaveProfiles(<<Profile("P1"), Profile("P2")>>)
        s1 == IF pref.lastProfile = "" THEN s0
              ELSE SaveLastSelectedSSOProfile(s0, pref.lastProfile)
        s2 == IF pref.lastAccount = 0 THEN s1
              ELSE SaveLastSelectedAccount(s1, "P1", pref.lastAccount)
        s3 == IF pref.lastRole = "" THEN s2
              ELSE SaveLastSelectedRole(s2, "P1", 1, pref.lastRole)
        s4 == IF pref.region = "" THEN s3
              ELSE SaveAccountRegion(s3, "P1", 1, pref.region)
    IN IF pref.profileName = "" THEN s4
       ELSE SaveProfileNameForAccountRole(s4, "P1", 1, "Admin", pref.profileName)

ProfilesInit ==
    /\ \E pref \in PreferenceChoices : profileStore = StoreWith(pref)
    /\ awsConfig = NoAwsConfig
    /\ \E order \in Orderings(LoadProfiles(awsConfig, profileStore)) : m = initialModel(order)
    /\ heap = <<>>
    /\ tokenStore = [u \in URLs |-> NoSection]
    /\ accountCache = NoCacheFile
    /\ credentials = NoFile
    /\ cmds = EmptyBag
    /\ savers = EmptyBag
    /\ now = 0
    /\ nano = 0
    /\ direct = DirectOff
    /\ budget = MaxProfileKeys
    /\ last = Step("Init", "", NoCmd, {})

ProfilesNext ==
    \/ PressAdd
    \/ PressEdit
    \/ PressDelete
    \/ SubmitAddForm
    \/ SubmitEditForm
    \/ ConfirmDelete
    \/ DeclineDelete
    \/ EscForm

ProfilesSpec == ProfilesInit /\ [][ProfilesNext]_vars


\* ---------------------------------------------------- the catalog refreshes
\* A run of the TUI on P1 with the token cached, over the account cache an
\* earlier run can have left (sorted by name, each account with no roles,
\* with listed roles or with the error marker; or a file that does not
\* parse), when the organisation now lists any of CatalogRemotes.
MaxCatalogNames == 3

CachedRoleStates == {<<>>, <<"Dev", "Admin">>, <<ErrorLoadingRoles>>}

Ascending(names) ==
    [k \in 1..Cardinality(names) |->
        CHOOSE n \in names : Cardinality({x \in names : x < n}) = k - 1]

CachedAccountLists ==
    {[k \in 1..Cardinality(names) |->
         [NewAccount(Ascending(names)[k])
             EXCEPT !.Roles = roles[Ascending(names)[k]],
                    !.RolesLoaded = roles[Ascending(names)[k]] # <<>>]]
     : names \in SUBSET (1..MaxCatalogNames),
       roles \in [1..MaxCatalogNames -> CachedRoleStates]}

CatalogRemotes == {SmallList, <<1>>, <<MaxCatalogNames, 2>>, <<>>, <<1, -1>>}

CatalogInit ==
    /\ m = InitialModel
    /\ heap = <<>>
    /\ tokenStore = [u \in URLs |-> IF u = StartURLOf("P1") THEN CachedSection(u)
                                    ELSE NoSection]
    /\ \/ \E cached \in CachedAccountLists, present \in BOOLEAN :
            /\ cached # <<>> => present
            /\ accountCache =
                   IF present
                   THEN UpsertCachedAccounts(NoCacheFile, "P1",
                                             StartURLOf("P1"), cached)
                   ELSE NoCacheFile
       \/ accountCache = CorruptCacheFile
    /\ awsConfig = NoAwsConfig
    /\ credentials = NoFile
    /\ profileStore = SaveProfiles(<<Profile("P1"), Profile("P2")>>)
    /\ cmds = EmptyBag
    /\ savers = EmptyBag
    /\ now = 0
    /\ nano = 0
    /\ direct = DirectOff
    /\ budget = MaxKeys
    /\ last = Step("Init", "", NoCmd, {})

\* The command of fetchAccounts runs against the organisation of this run.
CatalogFetch ==
    \E c \in InFlight("fetchAccounts"), remote \in CatalogRemotes :
        /\ FetchAccountsListed(c, remote)
        /\ UNCHANGED <<tokenStore, accountCache, awsConfig, credentials, now, nano, direct, profileStore, savers, budget>>

CatalogNext ==
    \/ \E clientOk \in BOOLEAN : SelectProfile("P1", clientOk)
    \/ \E i \in 1..MaxCursor : OpenAccount(i)
    \/ StartSSOLoginDone
    \/ CatalogFetch
    \/ LoadNextRole
    \/ RoleLoadDone
    \/ SaveCachedAccountsRun

CatalogSpec == CatalogInit /\ [][CatalogNext]_vars


\* ------------------------------------------------------ the profile loads
\* The start of the TUI over the AWS config files and the profile stores
\* that can be on disk: the AWS config file missing, not loading, or holding
\* up to MaxAwsSections sections; the profile store missing or holding P1
\* under its current keys, P1 under the old key region, preferences only, or
\* the metadata section.
MaxAwsSections == 2

AwsSectionChoices ==
    {AwsSection("profile ", "P1", "https://aws-one.awsapps.com/start", "us-west-2", ""),
     AwsSection("", "P1", "https://aws-uno.awsapps.com/start", "us-west-2", "us-east-2"),
     AwsSection("profile ", "P3", "https://aws-three.awsapps.com/start", "us-west-2", ""),
     AwsSection("profile ", "plain", "", "", "us-east-2"),
     AwsSection("", "default", "", "", "us-east-2")}

AwsConfigFiles ==
    {NoAwsConfig, [AwsConfig(<<>>) EXCEPT !.wellFormed = FALSE]}
    \cup {AwsConfig(sections) :
             sections \in {order \in UNION {[1..n -> AwsSectionChoices] :
                                               n \in 0..MaxAwsSections} :
                              \A i, j \in 1..Len(order) :
                                 order[i].sectionName = order[j].sectionName => i = j}}

ProfileStoreFiles ==
    {NoFile,
     SaveProfiles(<<Profile("P1"), Profile("P2")>>),
     SaveLastSelectedSSOProfile(SaveProfiles(<<Profile("P2")>>), "P1"),
     SaveLastSelectedAccount(SaveProfiles(<<Profile("P2")>>), "P1", 1),
     IniFile("P1" :> ((Key("start_url") :> StartURLOf("P1"))
                      @@ (Key("region") :> "eu-west-1")))}

\* initialModel(): the profiles are loaded, in the order the map yields them.
StartUp ==
    /\ last.act = "Init"
    /\ \E order \in Orderings(LoadProfiles(awsConfig, profileStore)) :
         m' = initialModel(order)
    /\ last' = Step("StartUp", "", NoCmd, {})
    /\ UNCHANGED <<heap, tokenStore, accountCache, awsConfig, credentials, profileStore, cmds, savers, now, nano, direct, budget>>

LoadInit ==
    /\ awsConfig \in AwsConfigFiles
    /\ profileStore \in ProfileStoreFiles
    /\ m = initialModel(<<>>)
    /\ heap = <<>>
    /\ tokenStore = [u \in URLs |-> NoSection]
    /\ accountCache = NoCacheFile
    /\ credentials = NoFile
    /\ cmds = EmptyBag
    /\ savers = EmptyBag
    /\ now = 0
    /\ nano = 0
    /\ direct = DirectOff
    /\ budget = MaxKeys
    /\ last = Step("Init", "", NoCmd, {})

LoadNext == StartUp

LoadSpec == LoadInit /\ [][LoadNext]_vars


\* ------------------------------------------------------- the token store runs
\* Runs of the TUI, one after another and all within the same instant, in
\* which the user logs in, leaves and quits, over the token store earlier
\* runs can have left: for each start URL no token or a token still valid.
TokenInit ==
    /\ tokenStore \in [URLs -> {NoSection} \cup {CachedSection(u) : u \in URLs}]
    /\ \A u \in URLs : tokenStore[u] \in {NoSection, CachedSection(u)}
    /\ m = InitialModel
    /\ heap = <<>>
    /\ accountCache = NoCacheFile
    /\ awsConfig = NoAwsConfig
    /\ credentials = NoFile
    /\ profileStore = SaveProfiles(<<Profile("P1"), Profile("P2")>>)
    /\ cmds = EmptyBag
    /\ savers = EmptyBag
    /\ now = 0
    /\ nano = 0
    /\ direct = DirectOff
    /\ budget = MaxKeys
    /\ last = Step("Init", "", NoCmd, {})

TokenNext ==
    \/ \E p \in Profiles, clientOk \in BOOLEAN : SelectProfile(p, clientOk)
    \/ Esc
    \/ StartSSOLoginDone
    \/ PollReturn
    \/ Quit
    \/ Restart

TokenSpec == TokenInit /\ [][TokenNext]_vars


\* ------------------------------------------------------ the first-use runs
\* The first run of the TUI in a home directory that holds none of the four
\* files: the user adds a profile, logs in, opens an account and confirms a
\* role, so that the persistence store creates each file.
MaxFreshKeys == 4

FreshInit ==
    /\ profileStore = NoFile
    /\ tokenStore = [u \in URLs |-> NoSection]
    /\ accountCache = NoCacheFile
    /\ credentials = NoFile
    /\ awsConfig = NoAwsConfig
    /\ \E order \in Orderings(LoadProfiles(awsConfig, profileStore)) : m = initialModel(order)
    /\ heap = <<>>
    /\ cmds = EmptyBag
    /\ savers = EmptyBag
    /\ now = 0
    /\ nano = 0
    /\ direct = DirectOff
    /\ budget = MaxFreshKeys
    /\ last = Step("Init", "", NoCmd, {})

FreshNext ==
    \/ SubmitAddForm
    \/ \E p \in Profiles, clientOk \in BOOLEAN : SelectProfile(p, clientOk)
    \/ \E i \in 1..MaxCursor : OpenAccount(i)
    \/ \E j \in 1..MaxCursor : ConfirmRole(j)
    \/ StartSSOLoginDone
    \/ PollReturn
    \/ FetchAccountsDone
    \/ LoadNextRole
    \/ RoleLoadDone
    \/ GetRoleCredentialsDone
    \/ SaveCachedAccountsRun

FreshSpec == FreshInit /\ [][FreshNext]_vars


\* ------------------------------------- the catalog refreshes, run to the end
\* The same run under the scheduling of the runtime: every command that was
\* started returns its message and the message is handled, and every
\* background save runs.  The keys of the user carry no such obligation.
CatalogFairness ==
    /\ WF_vars(StartSSOLoginDone)
    /\ WF_vars(CatalogFetch)
    /\ WF_vars(LoadNextRole)
    /\ WF_vars(RoleLoadDone)
    /\ WF_vars(SaveCachedAccountsRun)

FairCatalogSpec == CatalogInit /\ [][CatalogNext]_vars /\ CatalogFairness


\* ------------------------------------------------- the long-running session
\* A run of the TUI on P1 with the token cached, which the user leaves open:
\* the clock advances at any instant, also while nothing is in flight, so
\* the stored expiry of the token passes during the run.
Idle ==
    /\ now < MaxTime
    /\ now' = now + 1
    /\ last' = Step("Idle", "", NoCmd, {})
    /\ UNCHANGED <<m, heap, tokenStore, accountCache, awsConfig, credentials, cmds, nano, direct, profileStore, savers, budget>>

LongRunInit ==
    /\ m = InitialModel
    /\ heap = <<>>
    /\ tokenStore = [u \in URLs |-> IF u = StartURLOf("P1") THEN CachedSection(u)
                                    ELSE NoSection]
    /\ accountCache = NoCacheFile
    /\ awsConfig = NoAwsConfig
    /\ credentials = NoFile
    /\ profileStore = SaveProfiles(<<Profile("P1"), Profile("P2")>>)
    /\ cmds = EmptyBag
    /\ savers = EmptyBag
    /\ now = 0
    /\ nano = 0
    /\ direct = DirectOff
    /\ budget = MaxKeys
    /\ last = Step("Init", "", NoCmd, {})

LongRunNext ==
    \/ \E clientOk \in BOOLEAN : SelectProfile("P1", clientOk)
    \/ \E i \in 1..MaxCursor : OpenAccount(i)
    \/ \E j \in 1..MaxCursor : ConfirmRole(j)
    \/ StartSSOLoginDone
    \/ FetchAccountsDone
    \/ LoadNextRole
    \/ RoleLoadDone
    \/ GetRoleCredentialsDone
    \/ SaveCachedAccountsRun
    \/ Idle

LongRunSpec == LongRunInit /\ [][LongRunNext]_vars


\* ------------------------------------------------------- deleting profiles
\* Profile work over the files earlier runs left: the account cache holds
\* the accounts discovered through P1, and the AWS config file can hold an
\* SSO profile of its own.
DeleteAwsConfigs ==
    {NoAwsConfig,
     AwsConfig(<<AwsSection("profile ", "P3", "https://aws-three.awsapps.com/start",
                            "us-west-2", "")>>)}

DeleteInit ==
    /\ profileStore = SaveProfiles(<<Profile("P1"), Profile("P2")>>)
    /\ awsConfig \in DeleteAwsConfigs
    /\ \E order \in Orderings(LoadProfiles(awsConfig, profileStore)) : m = initialModel(order)
    /\ heap = <<>>
    /\ tokenStore = [u \in URLs |-> NoSection]
    /\ accountCache = UpsertCachedAccounts(NoCacheFile, "P1", StartURLOf("P1"),
                                           <<NewAccount(1), NewAccount(2)>>)
    /\ credentials = NoFile
    /\ cmds = EmptyBag
    /\ savers = EmptyBag
    /\ now = 0
    /\ nano = 0
    /\ direct = DirectOff
    /\ budget = MaxProfileKeys
    /\ last = Step("Init", "", NoCmd, {})

DeleteSpec == DeleteInit /\ [][ProfilesNext]_vars


\* ------------------------------------------------------ the session set-ups
\* A run of the TUI over the files of an earlier run on P1 (the token and the
\* accounts are cached, the first account with its roles), in which the user
\* confirms roles,
\* goes back with esc and opens other accounts while get_role_credentials
\* calls are in flight, and quits at any point.
MaxSwitchKeys == 5

SessionInit ==
    /\ m = InitialModel
    /\ heap = <<>>
    /\ tokenStore = [u \in URLs |-> IF u = StartURLOf("P1") THEN CachedSection(u)
                                    ELSE NoSection]
    /\ accountCache =
           UpsertCachedAccounts(NoCacheFile, "P1", StartURLOf("P1"),
               [k \in 1..SmallLen |->
                   IF k = 1 THEN [NewAccount(k) EXCEPT !.Roles = <<"Dev", "Admin">>,
                                                       !.RolesLoaded = TRUE]
                   ELSE NewAccount(k)])
    /\ awsConfig = NoAwsConfig
    /\ credentials = NoFile
    /\ profileStore = SaveProfiles(<<Profile("P1"), Profile("P2")>>)
    /\ cmds = EmptyBag
    /\ savers = EmptyBag
    /\ now = 0
    /\ nano = 0
    /\ direct = DirectOff
    /\ budget = MaxSwitchKeys
    /\ last = Step("Init", "", NoCmd, {})

SessionNext ==
    \/ \E clientOk \in BOOLEAN : SelectProfile("P1", clientOk)
    \/ \E i \in 1..MaxCursor : OpenAccount(i)
    \/ \E j \in 1..MaxCursor : ConfirmRole(j)
    \/ Esc
    \/ StartSSOLoginDone
    \/ FetchAccountsDone
    \/ LoadNextRole
    \/ RoleLoadDone
    \/ GetRoleCredentialsDone
    \/ SaveCachedAccountsRun
    \/ Quit

SessionSpec == SessionInit /\ [][SessionNext]_vars


\* --------------------------------------------------- the remembered account
\* A run of the TUI on P1 with the token cached, after an earlier run saved
\* the account the user opened as last_account, with or without the account
\* cache of that run, when the organisation lists its accounts in any of the
\* orders of CatalogRemotes.
RememberedInit ==
    /\ m = InitialModel
    /\ heap = <<>>
    /\ tokenStore = [u \in URLs |-> IF u = StartURLOf("P1") THEN CachedSection(u)
                                    ELSE NoSection]
    /\ \E cached \in BOOLEAN :
         accountCache =
             IF cached
             THEN UpsertCachedAccounts(NoCacheFile, "P1", StartURLOf("P1"),
                      [k \in 1..MaxCatalogNames |-> NewAccount(k)])
             ELSE NoCacheFile
    /\ awsConfig = NoAwsConfig
    /\ credentials = NoFile
    /\ \E lastAccount \in 1..MaxCatalogNames :
         profileStore = SaveLastSelectedAccount(
                            SaveProfiles(<<Profile("P1"), Profile("P2")>>),
                            "P1", lastAccount)
    /\ cmds = EmptyBag
    /\ savers = EmptyBag
    /\ now = 0
    /\ nano = 0
    /\ direct = DirectOff
    /\ budget = MaxKeys
    /\ last = Step("Init", "", NoCmd, {})

RememberedSpec == RememberedInit /\ [][CatalogNext]_vars


\* ------------------------------------------------------------ properties
\* The account catalog the controller holds.
Catalog(mm, hp) == Arr(hp, mm.accounts)

\* The step just taken delivered a result or a tick of a command.
ResultKinds == {"startSSOLogin", "pollForSSOToken", "pollSleep", "fetchAccounts",
                "loadNextRole", "loadAccountRoles", "getRoleCredentials"}

\* C1: once the current request ID has changed away from r, no result or
\* tick born under r that arrives afterwards changes the screen state, the
\* error message, the account catalog, the access token, the token store or
\* the account cache.
C1_StaleResultsChangeNothing ==
    [][(/\ last'.cmd.kind \in ResultKinds
        /\ last'.cmd.born # NoRequestID
        /\ last'.cmd.born # m.currentRequestID)
       => (/\ m'.state = m.state
           /\ m'.errorMessage = m.errorMessage
           /\ m'.accessToken = m.accessToken
           /\ Catalog(m', heap') = Catalog(m, heap)
           /\ tokenStore' = tokenStore
           /\ accountCache' = accountCache)]_vars

\* A tick of a cancelled sign-in has timed out and put its error on the
\* profile list.
C1_StaleTickSeen ==
    /\ last.act = "ssoTokenPollingTick"
    /\ last.cmd.born # m.currentRequestID
    /\ m.errorMessage = "Authentication timed out"

\* C2: a list_accounts result whose request ID is no longer current leaves
\* the controller, the catalog and the account cache as they are and starts
\* no cache write.
C2_StaleFetchIgnored ==
    [][(/\ last'.act = "fetchAccounts"
        /\ last'.cmd.requestID # m.currentRequestID)
       => (/\ m' = m
           /\ heap' = heap
           /\ accountCache' = accountCache
           /\ cmds' = cmds (-) One(last'.cmd))]_vars

\* The accounts of P1 were listed after the user had escaped and selected P2.
C2_StaleFetchSeen ==
    /\ last.act = "fetchAccounts"
    /\ last.outcome = "listed"
    /\ last.cmd.profile = "P1"
    /\ last.cmd.requestID # m.currentRequestID
    /\ m.selectedSSO = "P2"
    /\ m.state = stateSelectAccount


\* The list_account_roles calls in flight for profile p.
RoleCallsInFlight(p) == {c \in InFlight("loadAccountRoles") : c.profile = p}

\* C3: at any instant at most one list_account_roles call is in flight per
\* profile.
C3_OneRoleCallPerProfile ==
    \A p \in Profiles :
        \A c1, c2 \in RoleCallsInFlight(p) : c1 = c2 /\ CopiesIn(c1, cmds) = 1

\* The record of the account with the given ID in a catalog.
RecordsOf(accs, accountID) ==
    {accs[i] : i \in {j \in 1..Len(accs) : accs[j].AccountID = accountID}}

\* C4: when the automatic role load of an account fails, the account gets
\* the roles ["Error loading roles"] with roles_loaded true, and the loader
\* continues with the next account.
C4_FailedLoadContinues ==
    [][(/\ last'.act = "loadAccountRoles"
        /\ last'.outcome = "failed"
        /\ last'.cmd.auto)
       => (/\ \A acc \in RecordsOf(Catalog(m', heap'), last'.cmd.accountID) :
                 acc.Roles = <<ErrorLoadingRoles>> /\ acc.RolesLoaded
           /\ last'.cmd.currentIdx + 1 < Len(Catalog(m', heap'))
                 => \E c \in BagToSet(cmds') :
                        /\ c.kind = "loadNextRole"
                        /\ c.currentIdx = last'.cmd.currentIdx + 1)]_vars


\* The commands of the automatic role loader.
IsAutomatic(c) == c.kind = "loadNextRole" \/ (c.kind = "loadAccountRoles" /\ c.auto)

\* The accounts of a catalog whose roles are loaded.
Loaded(accs) == {i \in 1..Len(accs) : accs[i].RolesLoaded}

\* C5: for a catalog of more than 100 accounts nothing of the automatic
\* loader is ever in flight; opening an unloaded account issues exactly one
\* list_account_roles call, for that account; and when that call returns,
\* only that account's record changes, it is loaded, and no further call is
\* issued.
C5_LargeCatalogLoadsOnDemand ==
    [][/\ \A c \in BagToSet(cmds') :
              IsAutomatic(c) => Len(Arr(heap', c.arr)) <= maxAccountsForRoleLoading
       /\ (/\ last'.act = "OpenAccount"
           /\ Len(Catalog(m, heap)) > maxAccountsForRoleLoading
           /\ ~heap[m'.selectedAcc.arr][m'.selectedAcc.idx].RolesLoaded)
          => \E c \in BagToSet(cmds') :
                 /\ c.kind = "loadAccountRoles"
                 /\ ~c.auto
                 /\ c.accountID = heap[m'.selectedAcc.arr][m'.selectedAcc.idx].AccountID
                 /\ cmds' = cmds (+) One(c)
       /\ (/\ last'.act = "loadAccountRoles"
           /\ last'.outcome = "listed"
           /\ ~last'.cmd.auto
           /\ Len(Catalog(m, heap)) > maxAccountsForRoleLoading)
          => /\ \A i \in 1..Len(Catalog(m, heap)) :
                    IF Catalog(m, heap)[i].AccountID = last'.cmd.accountID
                    THEN Catalog(m', heap')[i].RolesLoaded
                    ELSE Catalog(m', heap')[i] = Catalog(m, heap)[i]
             /\ \A c \in BagToSet(cmds') :
                    c.kind \in {"loadNextRole", "loadAccountRoles"}
                        => CopiesIn(c, cmds') <= CopiesIn(c, cmds)]_vars

\* Of a catalog of more than 100 accounts the user has opened one, its roles
\* have been listed, and it is the only loaded account.
C5_OpenedAccountLoaded ==
    /\ last.act = "loadAccountRoles"
    /\ last.outcome = "listed"
    /\ ~last.cmd.auto
    /\ Len(Catalog(m, heap)) > maxAccountsForRoleLoading
    /\ Cardinality(Loaded(Catalog(m, heap))) = 1
    /\ \A c \in BagToSet(cmds) : c.kind \notin {"loadNextRole", "loadAccountRoles"}


\* The automatic calls a step has issued.
IssuedAutomaticCalls ==
    {c \in BagToSet(cmds') :
        c.kind = "loadAccountRoles" /\ c.auto /\ CopiesIn(c, cmds') > CopiesIn(c, cmds)}

\* C6: for a catalog of at most 100 accounts the automatic calls are issued
\* in the order of the account list, each only after the previous one has
\* completed: when the call for an account is issued, no other automatic
\* call is in flight and every account before it in the list is loaded.
C6_SweepInListOrder ==
    [][\A c \in IssuedAutomaticCalls :
           /\ \A d \in BagToSet(cmds') :
                  (d.kind = "loadAccountRoles" /\ d.auto)
                      => (d = c /\ CopiesIn(d, cmds') = 1)
           /\ \A j \in 1..c.currentIdx : heap'[c.arr][j].RolesLoaded]_vars


\* The section of a start URL holds a token whose expiry is in the future.
HoldsFutureToken(store, startURL, t) ==
    /\ store[startURL].present
    /\ store[startURL].access_token # ""
    /\ ParseRFC3339(store[startURL].expires_at) > t

\* The start URL a login step was for.
LoginURL(step, d) ==
    IF step.act = "directLogin" THEN StartURLOf(d.profile) ELSE step.cmd.startUrl

\* C7: a login for a start URL with a cached token whose expiry is in the
\* future succeeds with that token and calls neither register_oidc_client
\* nor start_device_authorization nor create_token; the handshake is started
\* only on a miss or an expired token.
C7_CachedTokenSkipsHandshake ==
    [][last'.act \in {"startSSOLogin", "directLogin"}
       => LET url == LoginURL(last', direct)
              token == tokenStore[url].access_token
          IN /\ HoldsFutureToken(tokenStore, url, now)
                   => /\ last'.calls = {}
                      /\ (last'.act = "startSSOLogin"
                              /\ last'.cmd.requestID = m.currentRequestID)
                             => /\ m'.accessToken = token
                                /\ ~m'.isAuthenticating
                                /\ \E c \in BagToSet(cmds') :
                                       c.kind = "fetchAccounts" /\ c.accessToken = token
                                /\ \A c \in BagToSet(cmds') :
                                       c.kind \in {"pollForSSOToken", "pollSleep"}
                                           => c.requestID # last'.cmd.requestID
                      /\ last'.act = "directLogin"
                             => direct'.pc = "authenticated" /\ direct'.accessToken = token
             /\ last'.calls # {} => ~HoldsFutureToken(tokenStore, url, now)]_vars

\* A login in the TUI has just succeeded with the cached token, without a call.
C7_CachedLoginSeen ==
    /\ last.act = "startSSOLogin"
    /\ last.calls = {}
    /\ m.accessToken = CachedToken(last.cmd.startUrl)
    /\ m.currentRequestID = last.cmd.requestID
    /\ \E c \in InFlight("fetchAccounts") : c.accessToken = m.accessToken


EightHours == 8 * 3600 * TicksPerSecond
OneMinute == 60 * TicksPerSecond

C9_LoadTokenAbsentAtExpiry ==
    [][last'.act \in {"startSSOLogin", "directLogin"}
       => LET url == LoginURL(last', direct)
              loaded == LoadToken(tokenStore, url, now)
          IN /\ (tokenStore[url].present
                    /\ ParseRFC3339(tokenStore[url].expires_at) <= now)
                   => ~loaded.found
             /\ loaded.found => ParseRFC3339(tokenStore[url].expires_at) > now]_vars

\* C10: while polling for the current login, ExpiredToken fails it as
\* "device code expired" and any other API error as an API error; on these
\* failures and on a failed client registration or device authorization the
\* controller holds the error, is back in SELECT_PROFILE and polls no more.
C10_LoginFailureReturnsToProfiles ==
    [][(/\ last'.act \in {"startSSOLogin", "pollForSSOToken"}
        /\ last'.cmd.requestID = m.currentRequestID
        /\ last'.outcome \in {"ExpiredTokenException", "AccessDeniedException",
                              "registerFailed", "deviceAuthFailed"})
       => /\ m'.state = stateSelectSSO
          /\ m'.errorMessage =
                 CASE last'.outcome = "ExpiredTokenException" -> "device code expired"
                   [] last'.outcome = "AccessDeniedException" ->
                          "API error: AccessDeniedException"
                   [] last'.outcome = "registerFailed" -> "failed to register OIDC client"
                   [] OTHER -> "failed to start device authorization"
          /\ \A c \in BagToSet(cmds') :
                 c.kind \in {"pollForSSOToken", "pollSleep"}
                     => c.requestID # last'.cmd.requestID]_vars

\* The device code of the current login has expired and the profile list
\* shows the error.
C10_DeviceCodeExpiredSeen ==
    /\ last.act = "pollForSSOToken"
    /\ last.outcome = "ExpiredTokenException"
    /\ last.cmd.requestID = m.currentRequestID
    /\ m.state = stateSelectSSO
    /\ m.errorMessage = "device code expired"


\* The polling commands of the login with the given request ID and expiry.
PollingOf(bag, c) ==
    {d \in BagToSet(bag) : /\ d.kind \in {"pollForSSOToken", "pollSleep"}
                           /\ d.requestID = c.requestID
                           /\ d.expiresAt = c.expiresAt}

\* The poll responses that carry no token and are no API failure.
WaitingOutcomes == {"AuthorizationPendingException", "SlowDownException",
                   "empty token", "transport error"}

\* C11: a login does not outlive its device code.  No create_token call is
\* issued after the expiry; a polling command that completes after the
\* expiry, with its timeout error or with its tick, ends the login in the
\* timeout failure; none of the waiting responses writes the token store.
C11_LoginEndsAtExpiry ==
    [][/\ \A c \in InFlight("pollForSSOToken")' :
              CopiesIn(c, cmds') > CopiesIn(c, cmds) => now <= c.expiresAt
       /\ (last'.act = "pollForSSOToken" /\ last'.outcome \in WaitingOutcomes)
              => tokenStore' = tokenStore
       /\ (/\ last'.act = "pollForSSOToken"
           /\ last'.outcome \in {"AuthorizationPendingException", "transport error"}
           /\ now > last'.cmd.expiresAt)
              => /\ PollingOf(cmds', last'.cmd) = {}
                 /\ last'.cmd.requestID = m.currentRequestID
                        => /\ m'.state = stateSelectSSO
                           /\ m'.errorMessage = "authentication timed out"
       /\ (last'.act = "ssoTokenPollingTick" /\ now > last'.cmd.expiresAt)
              => /\ PollingOf(cmds', last'.cmd) = {}
                 /\ m'.state = stateSelectSSO
                 /\ m'.errorMessage = "Authentication timed out"
                 /\ tokenStore' = tokenStore]_vars

\* The current login was still pending when polled after the expiry of its
\* device code, and the profile list shows the timeout.
C11_TimeoutSeen ==
    /\ last.act = "pollForSSOToken"
    /\ last.outcome = "AuthorizationPendingException"
    /\ now > last.cmd.expiresAt
    /\ last.cmd.requestID = m.currentRequestID
    /\ m.state = stateSelectSSO
    /\ m.errorMessage = "authentication timed out"
    /\ ~tokenStore[last.cmd.startUrl].present


\* The sleeps a step has started for the login of the command it completed.
SleepsStarted ==
    {d \in InFlight("pollSleep")' :
        /\ CopiesIn(d, cmds') > CopiesIn(d, cmds)
        /\ d.requestID = last'.cmd.requestID}

\* C12: on a SlowDown response the login keeps waiting and the next poll is
\* delayed by at least the interval of the login (its doubling is at least
\* that).
C12_SlowDownBacksOff ==
    [][(last'.act = "pollForSSOToken" /\ last'.outcome = "SlowDownException")
       => /\ m' = m
          /\ SleepsStarted # {}
          /\ \A d \in SleepsStarted :
                 d.wakeAt - now >= last'.cmd.interval * TicksPerSecond]_vars

\* C13: on an AuthorizationPending response before the expiry the next poll
\* is due exactly the interval of the login later.
C13_PendingWaitsInterval ==
    [][(/\ last'.act = "pollForSSOToken"
        /\ last'.outcome = "AuthorizationPendingException"
        /\ now <= last'.cmd.expiresAt)
       => /\ SleepsStarted # {}
          /\ \A d \in SleepsStarted :
                 d.wakeAt - now = last'.cmd.interval * TicksPerSecond]_vars


\* C18: when get_role_credentials or the write of the credentials fails
\* after a role confirmation, the controller holds the error and is back in
\* SELECT_ACCOUNT.
C18_CredentialsFailureReturnsToAccounts ==
    [][(/\ last'.act = "getRoleCredentials"
        /\ last'.outcome \in {"apiFailed", "writeFailed"})
       => /\ m'.state = stateSelectAccount
          /\ m'.errorMessage = IF last'.outcome = "apiFailed"
                               THEN "failed to get role credentials"
                               ELSE "failed to write credentials"]_vars

\* get_role_credentials has failed for the role the user confirmed, and the
\* controller shows the error on the profile list.
C18_FailureOnProfileListSeen ==
    /\ last.act = "getRoleCredentials"
    /\ last.outcome = "apiFailed"
    /\ m.errorMessage = "failed to get role credentials"
    /\ m.state = stateSelectSSO

\* The keys of a profile's section that SaveProfiles does not write itself.
ProfileKeys == {Key("start_url"), Key("sso_region"), Key("default_region")}

\* C14: whenever the profile list is saved after an add, an edit or a delete,
\* the metadata section of the profile store is as it was, and every
\* preference key of every profile that is still in the saved list keeps its
\* value.
C14_SaveKeepsPreferences ==
    [][(last'.act \in {"SubmitAddForm", "SubmitEditForm", "ConfirmDelete"}
        /\ last'.outcome = "saved")
       => LET before == IniLoad(profileStore).cfg
              after == IniLoad(profileStore').cfg
              saved == {m'.ssoProfiles[i].Name : i \in 1..Len(m'.ssoProfiles)}
          IN /\ HasSection(before, "metadata")
                  => /\ HasSection(after, "metadata")
                     /\ after["metadata"] = before["metadata"]
             /\ \A n \in saved \cap DOMAIN before :
                  \A k \in DOMAIN before[n] \ ProfileKeys :
                     KeyString(after, n, k) = before[n][k]]_vars

\* A profile list has been saved while the store held a preference of a
\* profile that stays in the list.
C14_SavedOverPreferences ==
    /\ last.act \in {"SubmitAddForm", "SubmitEditForm", "ConfirmDelete"}
    /\ last.outcome = "saved"
    /\ \E i \in 1..Len(m.ssoProfiles) : m.ssoProfiles[i].Name = "P1"

\* C15: a write of credentials for a profile name leaves every other section
\* that was in the credentials file in the file, with the same keys and
\* values, whatever the file held before (a file that does not load
\* included).
C15_OtherSectionsUntouched ==
    [][last'.act = "WriteCredentialsRun"
       => \A n \in DOMAIN credentials.sections \ {last'.outcome} :
             /\ n \in DOMAIN credentials'.sections
             /\ credentials'.sections[n] = credentials.sections[n]]_vars

\* Credentials have been written for one name over another section.
C15_WrittenBesideOtherSection ==
    /\ last.act = "WriteCredentialsRun"
    /\ credentials.exists
    /\ DOMAIN credentials.sections \ {last.outcome} # {}

\* C16: once a confirmed role has brought the session up for profile P,
\* account A and role R and no preference save is still running, the profile
\* store holds last_sso_profile = P, last_account = A in the section of P and
\* last_role_A = R.
C16_PreferencesSaved ==
    (m.state = stateSessionSuccess /\ savers = EmptyBag)
    => LET acc == heap[m.selectedAcc.arr][m.selectedAcc.idx]
       IN /\ StoreHolds(profileStore, "metadata", Key("last_sso_profile"), m.selectedSSO)
          /\ StoreHolds(profileStore, m.selectedSSO, Key("last_account"), acc.Name)
          /\ StoreHolds(profileStore, m.selectedSSO, AccountKey("last_role", acc.Name),
                        acc.SelectedRole)

\* The session is up and every preference save has finished.
C16_SessionUpSavesDone ==
    /\ m.state = stateSessionSuccess
    /\ savers = EmptyBag
    /\ last.act = "SaverWrite"

\* C17: the region written with the credentials of a confirmed role is the
\* region override saved for the account in the profile store when there is
\* one, and the default region of the profile otherwise, whatever regions
\* were set and cleared before and however often the TUI was restarted.
C17_WrittenRegionIsSavedOverride ==
    [][(last'.act = "getRoleCredentials" /\ last'.outcome = "written")
       => LET c == last'.cmd
              name == heap[c.selectedAcc.arr][c.selectedAcc.idx].Name
              override == IF StoreHolds(profileStore, c.profile, AccountKey("region", name),
                                        SavedRegion)
                          THEN SavedRegion ELSE ""
          IN credentials'.sections["default"][Key("region")] =
                IF override # "" THEN override ELSE DefaultRegionOf(c.profile)]_vars

\* Credentials have been written in a run after a restart in which the
\* region of the account had been cleared.
C17_WrittenAfterClearAndRestart ==
    /\ last.act = "getRoleCredentials"
    /\ last.outcome = "written"
    /\ nano > MaxKeys
    /\ LET c == last.cmd
           name == heap[c.selectedAcc.arr][c.selectedAcc.idx].Name
       IN StoreHolds(profileStore, c.profile, AccountKey("region", name), "")

\* C19: a run of sesh with positional arguments exits with code zero when
\* the session was set up and with a non-zero code when it ended in an error
\* shown to the user (wrong number of arguments, unknown profile or account,
\* failed authentication, failed write of the credentials).
C19_ErrorsExitNonZero ==
    direct.pc = "exited" => (direct.exitCode = 0 <=> direct.err = "")

\* A run that ended in an error has exited.
C19_FailedRunExited ==
    /\ direct.pc = "exited"
    /\ direct.err # ""

FreshListAccepted ==
    /\ last'.act = "fetchAccounts"
    /\ last'.outcome = "listed"
    /\ ~IsOutdated(last'.cmd.requestID, m)

DistinctNames(profiles) ==
    \A i, j \in 1..Len(profiles) : profiles[i].Name = profiles[j].Name => i = j

\* C22: after the profile list the forms have built, its names pairwise
\* distinct, is saved, load_profiles returns every profile of the list with
\* the same start URL, SSO region and default region.
C22_SaveLoadRoundTrip ==
    (/\ last.act \in {"SubmitAddForm", "SubmitEditForm", "ConfirmDelete"}
     /\ last.outcome = "saved"
     /\ DistinctNames(m.ssoProfiles))
    => \A i \in 1..Len(m.ssoProfiles) : m.ssoProfiles[i] \in LoadProfiles(awsConfig, profileStore)

\* A profile list with distinct names, one of them added through the form,
\* has been saved.
C22_FormProfileSaved ==
    /\ last.act = "SubmitAddForm"
    /\ last.outcome = "saved"
    /\ DistinctNames(m.ssoProfiles)
    /\ Len(m.ssoProfiles) > 2

\* ------------------------------------------------------------------- C23
\* The SSO profiles found in the AWS config file, a missing file and a file
\* that does not load holding none: the names of the sections that carry
\* sso_start_url, and the start URLs found under a name.
AwsProfileNames(file) ==
    IF ~file.exists \/ ~file.wellFormed THEN {}
    ELSE {file.sections[i].sectionName[2] :
             i \in {k \in 1..Len(file.sections) : file.sections[k].sso_start_url # ""}}

AwsStartURLs(file, name) ==
    {file.sections[i].sso_start_url :
        i \in {k \in 1..Len(file.sections) : file.sections[k].sectionName[2] = name}}

\* The profiles of the awsesh profile store, a missing file holding none:
\* the sections with a start_url, the metadata section apart.
StoreProfileNames(file) ==
    IF ~file.exists THEN {}
    ELSE {n \in DOMAIN file.sections \ {"metadata"} :
             Key("start_url") \in DOMAIN file.sections[n]
             /\ file.sections[n][Key("start_url")] # ""}

\* C23: the profiles the TUI starts with are one entry for every name among
\* the SSO profiles of the AWS config file and the profiles of the awsesh
\* profile store, and no other entry; a name that is in the awsesh store has
\* the start URL and the regions of its awsesh section, any other name a
\* start URL the AWS config file gives it.
C23_LoadIsUnionStoreWins ==
    last.act = "StartUp"
    => LET loaded == m.ssoProfiles
           inStore == StoreProfileNames(profileStore)
           inAws == AwsProfileNames(awsConfig)
       IN /\ {loaded[i].Name : i \in 1..Len(loaded)} = inStore \cup inAws
          /\ DistinctNames(loaded)
          /\ \A i \in 1..Len(loaded) :
               IF loaded[i].Name \in inStore
               THEN LET section == profileStore.sections[loaded[i].Name]
                    IN /\ loaded[i].StartURL = section[Key("start_url")]
                       /\ Key("sso_region") \in DOMAIN section
                            => loaded[i].SSORegion = section[Key("sso_region")]
                       /\ Key("default_region") \in DOMAIN section
                            => loaded[i].DefaultRegion = section[Key("default_region")]
               ELSE loaded[i].StartURL \in AwsStartURLs(awsConfig, loaded[i].Name)

\* The TUI has started with a profile that is in both files and a profile
\* that is only in the AWS config file.
C23_CollisionLoaded ==
    /\ last.act = "StartUp"
    /\ StoreProfileNames(profileStore) \cap AwsProfileNames(awsConfig) # {}
    /\ AwsProfileNames(awsConfig) \ StoreProfileNames(profileStore) # {}

\* ------------------------------------------------------------------- C24
\* The titles are in strictly increasing, or in non-decreasing, order.
StrictlySorted(keys) == \A i \in 1..(Len(keys) - 1) : keys[i] < keys[i + 1]
Sorted(keys) == \A i \in 1..(Len(keys) - 1) : keys[i] <= keys[i + 1]

RoleRanks(roles) == [i \in 1..Len(roles) |-> RoleRank(roles[i])]

\* C24 as stated: whenever the account list is shown its items are in
\* strictly increasing order of account name, whenever the role list is
\* shown its items are in strictly increasing order of role name, and every
\* account list in the account cache is sorted by name.
C24_ListsStrictlySorted ==
    /\ m.state = stateSelectAccount => StrictlySorted(m.accountItems)
    /\ m.state = stateSelectRole => StrictlySorted(RoleRanks(m.roleItems))
    /\ \A u \in URLs : Sorted(Names(LoadCachedAccounts(accountCache, u).Accounts))

\* C24 amended: whenever the account list is shown its items are in
\* non-decreasing order of account name (two accounts can have the same
\* name), whenever the role list is shown its items are in strictly
\* increasing order of role name, and every account list in the account
\* cache is sorted by name.
C24_ListsSorted ==
    /\ m.state = stateSelectAccount => Sorted(m.accountItems)
    /\ m.state = stateSelectRole => StrictlySorted(RoleRanks(m.roleItems))
    /\ \A u \in URLs : Sorted(Names(LoadCachedAccounts(accountCache, u).Accounts))

\* The account list is shown with the items of a fresh result the remote
\* returned out of order, two of its accounts having the same name.
C24_SameNameShown ==
    /\ m.state = stateSelectAccount
    /\ last.act = "fetchAccounts"
    /\ last.listed = <<1, -1>>
    /\ Len(m.accountItems) = 2
    /\ m.accountItems[1] = m.accountItems[2]

\* ------------------------------------------------------------------- C25
\* C25: when the program quits and clears the cached token of the selected
\* profile (save_token with the empty token and the current instant),
\* load_token of that start URL returns absent from then on, and the section
\* of every other start URL is as it was.
C25_ClearRemovesOnlyThatToken ==
    [][(last'.act = "Quit" /\ last'.outcome = "cleared")
       => LET startURL == StartURLOf(m.selectedSSO)
          IN /\ \A t \in now..MaxTime : ~LoadToken(tokenStore', startURL, t).found
             /\ \A u \in URLs \ {startURL} : tokenStore'[u] = tokenStore[u]]_vars

\* The program has quit after a login and cleared the token of its profile
\* while the store holds a valid token of the other profile.
C25_ClearedBesideOtherToken ==
    /\ last.act = "Quit"
    /\ last.outcome = "cleared"
    /\ m.accessToken # ""
    /\ tokenStore[StartURLOf(m.selectedSSO)].present
    /\ \E u \in URLs \ {StartURLOf(m.selectedSSO)} : LoadToken(tokenStore, u, now).found

\* ------------------------------------------------------------------- C26
\* C26: the load of cached accounts a profile selection makes returns no
\* error, and over an account-cache file that does not parse
\* load_cached_accounts returns no accounts and no error for every start URL.
C26_CorruptCacheIsEmpty ==
    last.act = "SelectProfile"
    => /\ last.outcome = ""
       /\ ~accountCache.wellFormed
            => \A u \in URLs :
                  LoadCachedAccounts(accountCache, u) = [err |-> "", Accounts |-> <<>>]

\* A profile has been selected over an account-cache file that does not
\* parse, and the load of its cached accounts returned an error.
C26_CorruptCacheLoadFailed ==
    /\ last.act = "SelectProfile"
    /\ ~accountCache.wellFormed
    /\ last.outcome = "failed to parse accounts cache"

\* ------------------------------------------------------------------- C27
\* The files of the persistence store that are on disk.  In a run that
\* started with none of them, each was created by the persistence store.
FilesOnDisk ==
    {kind \in {"profiles", "tokens", "accounts", "credentials"} :
        \/ kind = "profiles" /\ profileStore.exists
        \/ kind = "tokens" /\ \E u \in URLs : tokenStore[u].present
        \/ kind = "accounts" /\ \E u \in URLs : accountCache.caches[u].present
        \/ kind = "credentials" /\ credentials.exists}

\* C27: in a run that started with none of the files, every file of the
\* persistence store that is on disk (profile store, token store, account
\* cache, credentials file) was created with mode 0600, and the directory
\* with mode 0700.
C27_CreatedOwnerOnly ==
    /\ \A kind \in FilesOnDisk : CreatedPerm(kind) = Perm0600
    /\ awsDirPerm = Perm0700

\* The first run has created the token store and the account cache.
C27_FilesCreated ==
    /\ last.act # "Init"
    /\ {"profiles", "tokens", "accounts"} \subseteq FilesOnDisk

\* ------------------------------------------------------------------- C28
\* The polling chains that are active: the polls in flight together with the
\* sleeps that end in a tick.
PollingChains == InFlight("pollForSSOToken") \cup InFlight("pollSleep")

\* C28: the tick of a login attempt whose request ID is no longer the
\* current one is discarded (the controller stays as it is and no poll is
\* issued), and at every instant at most one polling chain is active.
C28_OnePollingChain ==
    [][/\ (last'.act = "ssoTokenPollingTick" /\ last'.cmd.requestID # m.currentRequestID)
          => /\ m' = m
             /\ InFlight("pollForSSOToken")' \subseteq InFlight("pollForSSOToken")
       /\ Cardinality(PollingChains') <= 1]_vars

\* The attempt on one profile was left with escape while its poll was in
\* flight, and the attempt on the other profile polls as well.
C28_TwoChainsSeen ==
    \E c, d \in PollingChains :
        /\ c.requestID # d.requestID
        /\ d.requestID = m.currentRequestID

\* ------------------------------------------------------------------- C29
\* A fresh list_accounts result of at most maxAccountsForRoleLoading accounts
\* has just been accepted for the current request.
FreshListShown ==
    /\ last.act = "fetchAccounts"
    /\ last.outcome = "listed"
    /\ ~IsOutdated(last.cmd.requestID, m)
    /\ UnderRoleLoadingLimit(Len(Catalog(m, heap)))

AllRolesLoaded ==
    \A i \in 1..Len(Catalog(m, heap)) : Catalog(m, heap)[i].RolesLoaded

UserActed == last.act \in {"SelectProfile", "OpenAccount"}

\* The role loads of the sweep that are under way.
SweepUnderWay == InFlight("loadNextRole") \cup InFlight("loadAccountRoles")

\* C29: once a fresh list_accounts result with at most 100 accounts has been
\* accepted for the current request, with or without cached accounts on
\* display, then unless the user acts, eventually every account of the
\* catalog has roles_loaded = true, however the cache saves interleave.
C29_AllRolesEventuallyLoaded == FreshListShown ~> (AllRolesLoaded \/ UserActed)

\* The fresh list arrived over cached accounts with an account whose roles
\* are not loaded, and no role load is under way.
C29_FreshListNoSweep ==
    /\ FreshListShown
    /\ m.usingCachedAccounts
    /\ ~AllRolesLoaded
    /\ SweepUnderWay = {}

\* ------------------------------------------------------------------- C30
\* The commands of a kind that the step started.
Issued(kind) ==
    {c \in BagToSet(cmds') : c.kind = kind /\ CopiesIn(c, cmds') > CopiesIn(c, cmds)}

\* The step handled the auth success of the login with the given request ID.
AuthSucceeded(requestID) ==
    /\ \/ last'.act = "startSSOLogin" /\ last'.outcome = "cached"
       \/ last'.act = "pollForSSOToken" /\ last'.outcome = "token"
    /\ last'.cmd.requestID = requestID

\* C30: within one request ID the events come in the order device
\* authorization, poll ticks, auth success or failure, account fetch, role
\* loads: a list_accounts call is issued only by the step that handles the
\* auth success of its request, and no list_account_roles call is issued by
\* opening an account while the login of the current attempt is still being
\* authenticated (isAuthenticating is raised by the selection and lowered
\* only by the auth success of the current request, so no account fetch of
\* the attempt has been issued yet).
C30_EventsInOrder ==
    [][/\ \A c \in Issued("fetchAccounts") : AuthSucceeded(c.requestID)
       /\ (last'.act = "OpenAccount" /\ m.isAuthenticating)
             => Issued("loadAccountRoles") = {}]_vars

\* An account of the cached list was opened while the login was still under
\* way, and its list_account_roles call is in flight.
C30_RolesCalledBeforeAuth ==
    /\ last.act = "OpenAccount"
    /\ m.isAuthenticating
    /\ InFlight("startSSOLogin") \cup InFlight("pollForSSOToken") # {}
    /\ \E c \in InFlight("loadAccountRoles") : ~c.auto

\* ------------------------------------------------------------------- C31
\* The commands that call list_accounts, list_account_roles or
\* get_role_credentials and that the step started.
IssuedApiCalls ==
    {c \in BagToSet(cmds') :
        /\ c.kind \in {"fetchAccounts", "loadAccountRoles", "getRoleCredentials"}
        /\ CopiesIn(c, cmds') > CopiesIn(c, cmds)}

\* The stored expiry of the access token has elapsed at the instant t.
StoredExpiryElapsed(store, token, t) ==
    \E u \in URLs : /\ store[u].present
                    /\ store[u].access_token = token
                    /\ TokenExpired(t, ParseRFC3339(store[u].expires_at))

\* C31: an access token counts as absent once its stored expiry is in the
\* past, on every operation: no list_accounts, list_account_roles or
\* get_role_credentials call is issued with a token whose stored expiry has
\* elapsed, also in a session that stays open for long.
C31_NoCallWithExpiredToken ==
    [][\A c \in IssuedApiCalls :
          c.accessToken # "" => ~StoredExpiryElapsed(tokenStore, c.accessToken, now)]_vars

\* A call is in flight with the token of the store, whose expiry has passed.
C31_ExpiredTokenInFlight ==
    \E c \in InFlight("getRoleCredentials") \cup InFlight("loadAccountRoles") :
        /\ c.accessToken # ""
        /\ StoredExpiryElapsed(tokenStore, c.accessToken, now)
        /\ last.act \in {"OpenAccount", "ConfirmRole", "loadNextRole"}

\* ------------------------------------------------------------------- C32
\* The step was an add, an edit or a delete whose save_profiles failed.
ProfileSaveFailed ==
    /\ last'.act \in {"SubmitAddForm", "SubmitEditForm", "ConfirmDelete"}
    /\ last'.outcome = "saveFailed"

\* C32: when save_profiles fails during an add, an edit or a delete of a
\* profile, the error is shown and the in-memory profile list is the one
\* from before the action.
C32_FailedSaveKeepsList ==
    [][ProfileSaveFailed =>
          /\ m'.formError # "" \/ m'.errorMessage # ""
          /\ m'.ssoProfiles = m.ssoProfiles]_vars

\* A delete failed to save, and the profile the store still holds is gone
\* from the list in memory.
C32_FailedDeleteDroppedProfile ==
    /\ last.act = "ConfirmDelete"
    /\ last.outcome = "saveFailed"
    /\ \E p \in LoadProfiles(awsConfig, profileStore) :
          \A i \in 1..Len(m.ssoProfiles) : m.ssoProfiles[i].Name # p.Name

\* ------------------------------------------------------------------- C33
\* No two profiles of the list share a name.
UniqueNames(profiles) ==
    \A i, j \in 1..Len(profiles) : profiles[i].Name = profiles[j].Name => i = j

\* C33: profile names are unique in every reachable state: after any
\* sequence of add, edit and delete actions and of load_profiles calls, no
\* two profiles of the in-memory list share a name, and no two profiles that
\* load_profiles returns from the store share a name.
C33_ProfileNamesUnique ==
    /\ UniqueNames(m.ssoProfiles)
    /\ \A p, q \in LoadProfiles(awsConfig, profileStore) : p.Name = q.Name => p = q

\* The add form has turned down an alias that a profile of the list bears,
\* while the list holds two profiles or more.
C33_DuplicateAliasRejected ==
    /\ last.act = "SubmitAddForm"
    /\ last.outcome = "rejected"
    /\ m.formError = "An SSO profile with this alias already exists"
    /\ Len(m.ssoProfiles) >= 2

\* ------------------------------------------------------------------- C34
\* The step confirmed the delete of a profile and saved the list.
DeleteConfirmed ==
    /\ last'.act = "ConfirmDelete"
    /\ last'.outcome = "saved"

\* The profiles of the list that bear the name.
Named(profiles, name) ==
    {profiles[i] : i \in {k \in 1..Len(profiles) : profiles[k].Name = name}}

\* C34: when a profile is deleted, the accounts discovered through it are
\* destroyed as well: after the delete is confirmed, the account cache holds
\* no record for the start URL of that profile, and load_profiles no longer
\* returns the profile.
C34_DeleteDestroysAccounts ==
    [][DeleteConfirmed =>
          /\ \A p \in Named(m.ssoProfiles, m.deleteProfileName) :
                p.StartURL \in URLs => ~accountCache'.caches[p.StartURL].present
          /\ \A q \in LoadProfiles(awsConfig', profileStore') :
                q.Name # m.deleteProfileName]_vars

\* P1 was deleted and the list saved, and the account cache still holds the
\* accounts of the start URL of P1.
C34_CacheOutlivesProfile ==
    /\ last.act = "ConfirmDelete"
    /\ last.outcome = "saved"
    /\ \A q \in LoadProfiles(awsConfig, profileStore) : q.Name # "P1"
    /\ accountCache.caches[StartURLOf("P1")].present
    /\ accountCache.caches[StartURLOf("P1")].Accounts # <<>>

\* ------------------------------------------------------------------- C35
\* The account the controller holds as selected.
SelectedAccount == heap[m.selectedAcc.arr][m.selectedAcc.idx]

\* C35: whenever the controller is in SESSION_ACTIVE, the credentials last
\* written to the credentials file were obtained for exactly the account and
\* role the controller holds as selected (the account ID names the
\* organisation of the profile), however role confirmations, escapes and
\* selections interleave with the get_role_credentials calls in flight.
C35_SessionMatchesCredentials ==
    m.state = stateSessionSuccess =>
        /\ m.selectedAcc # NoAcc
        /\ StoreHolds(credentials, "default", Key("aws_access_key_id"),
                      RoleCredentials(SelectedAccount.AccountID,
                                      SelectedAccount.SelectedRole))

\* The session came up on the completion of a get_role_credentials call for
\* another account or role than the selected one.
C35_SessionOfOtherRole ==
    /\ m.state = stateSessionSuccess
    /\ last.act = "getRoleCredentials"
    /\ last.outcome = "written"
    /\ m.selectedAcc # NoAcc
    /\ \/ last.cmd.accountID # SelectedAccount.AccountID
       \/ last.cmd.roleName # SelectedAccount.SelectedRole

\* ------------------------------------------------------------------- C36
\* The list_account_roles and get_role_credentials calls the step started.
IssuedRoleCalls ==
    {c \in IssuedApiCalls : c.kind \in {"loadAccountRoles", "getRoleCredentials"}}

\* The access tokens the cache or the handshake yields for a start URL.
TokensFor(startURL) == {CachedToken(startURL), NewToken(startURL)}

\* C36: every list_account_roles and get_role_credentials call the TUI
\* issues carries a non-empty access token that was obtained, from the cache
\* or from the handshake, for the start URL of the profile that is selected
\* when the call is issued, also when the user switches profiles or opens a
\* cached account before the authentication has completed.
C36_CallsCarryTokenOfProfile ==
    [][\A c \in IssuedRoleCalls :
          /\ c.accessToken # ""
          /\ m.selectedSSO # NoProfile
          /\ c.accessToken \in TokensFor(StartURLOf(m.selectedSSO))]_vars

\* A cached account was opened before the login returned, and its
\* list_account_roles call is in flight with the empty access token.
C36_RoleCallWithoutToken ==
    /\ last.act = "OpenAccount"
    /\ m.accessToken = ""
    /\ \E c \in InFlight("loadAccountRoles") : c.accessToken = ""

\* ------------------------------------------------------------------- C37
\* The accounts the account cache holds with the error marker for roles and
\* roles_loaded = true.
CachedErrorMarkers ==
    {<<u, i>> \in URLs \X (1..BigListLen) :
        /\ accountCache.wellFormed
        /\ i <= Len(accountCache.caches[u].Accounts)
        /\ accountCache.caches[u].Accounts[i].Roles = <<ErrorLoadingRoles>>
        /\ accountCache.caches[u].Accounts[i].RolesLoaded}

\* C37: the marker "Error loading roles" holds back retries within the
\* session only: it is never written to the account cache with
\* roles_loaded = true, so that a later session loads the roles of the
\* account again.
C37_MarkerNeverCached == CachedErrorMarkers = {}

\* A background save has written the account cache with an account that
\* bears the marker.
C37_MarkerSaved ==
    /\ last.act = "SaveCachedAccounts"
    /\ CachedErrorMarkers # {}

\* ------------------------------------------------------------------- C38
\* The elements of a sequence.
Range(seq) == {seq[i] : i \in 1..Len(seq)}

\* The account list is on display and the last step accepted a fresh
\* list_accounts result for the current request.
FreshListOnDisplay ==
    /\ m.state = stateSelectAccount
    /\ last.act = "fetchAccounts"
    /\ last.outcome = "listed"
    /\ ~IsOutdated(last.cmd.requestID, m)

\* C38: whenever the account list is shown in SELECT_ACCOUNT after a fresh
\* list_accounts result was accepted, the displayed account names are the
\* account names of the in-memory catalog: accounts the fresh result dropped
\* are no longer displayed and new accounts are displayed, also when cached
\* accounts were displayed first.
C38_DisplayIsCatalog ==
    FreshListOnDisplay => Range(m.accountItems) = Range(Names(Catalog(m, heap)))

\* The fresh result arrived over cached accounts and differs from them: an
\* account on display is not in the catalog, or an account of the catalog
\* is not on display.
C38_StaleDisplay ==
    /\ FreshListOnDisplay
    /\ m.usingCachedAccounts
    /\ Range(m.accountItems) # Range(Names(Catalog(m, heap)))

\* ------------------------------------------------------------------- C39
\* The last step entered SELECT_ACCOUNT with accounts to show (the cached
\* ones on the selection of the profile) or refreshed it with a fresh list.
AccountListEntered ==
    /\ m.state = stateSelectAccount
    /\ \/ last.act = "SelectProfile" /\ m.usingCachedAccounts
       \/ /\ last.act = "fetchAccounts"
          /\ last.outcome = "listed"
          /\ ~IsOutdated(last.cmd.requestID, m)
          /\ ~m.usingCachedAccounts

\* The accounts of the catalog that bear the saved last_account of the
\* selected profile.
LastUsedAccounts ==
    {i \in 1..Len(Catalog(m, heap)) :
        StoreHolds(profileStore, m.selectedSSO, Key("last_account"),
                   Catalog(m, heap)[i].Name)}

\* C39: when SELECT_ACCOUNT is entered or refreshed and the saved
\* last_account of the profile names an account of the catalog, the item
\* highlighted in the displayed, sorted account list is that account, in
\* whatever order list_accounts returned the accounts.
C39_LastAccountHighlighted ==
    (AccountListEntered /\ LastUsedAccounts # {}) =>
        /\ m.accountCursor \in 1..Len(m.accountItems)
        /\ StoreHolds(profileStore, m.selectedSSO, Key("last_account"),
                      m.accountItems[m.accountCursor])

\* A fresh list came in an order other than by name, and the cursor was put
\* on the position the remembered account has in that order.
C39_CursorOnOtherAccount ==
    /\ AccountListEntered
    /\ last.act = "fetchAccounts"
    /\ LastUsedAccounts # {}
    /\ m.accountCursor \in LastUsedAccounts
    /\ m.accountCursor \in 1..Len(m.accountItems)
    /\ m.accountItems[m.accountCursor] # Catalog(m, heap)[m.accountCursor].Name

\* ------------------------------------------------------------------- C40
\* C40: on quit (q or ctrl+c) the cached token of the selected profile is
\* cleared only if no session was set up in this run: it is cleared exactly
\* when a profile is selected and no credentials have been written, and it
\* stays as it is, loadable, after a session was set up.
C40_QuitClearsUnlessSession ==
    [][(last'.act = "Quit" /\ m.selectedSSO # NoProfile) =>
          IF credentials.exists
          THEN tokenStore' = tokenStore
          ELSE ~LoadToken(tokenStore', StartURLOf(m.selectedSSO), now).found]_vars

\* The user quit after opening an account and before any credentials were
\* written, and the token of the selected profile still loads.
C40_TokenKeptWithoutSession ==
    /\ last.act = "Quit"
    /\ m.selectedSSO # NoProfile
    /\ m.selectedAcc # NoAcc
    /\ ~credentials.exists
    /\ LoadToken(tokenStore, StartURLOf(m.selectedSSO), now).found

====
